---- MODULE Spec2Model ----
(***************************************************************************)
(* A model of the local-first chat application: the query router of the   *)
(* chat view (ChatInterface.processMessage / processLocalQuery), the      *)
(* cloud client (CloudFallback), the persistent store (LocalBackend) and  *)
(* the file import of the data view (DataUpload.handleFileUpload).        *)
(*                                                                         *)
(* Texts are TLA+ strings and are processed character by character, as    *)
(* the JavaScript string methods do.  A JavaScript value of type `any` is *)
(* a record with a type tag (see JSNull .. JSStr).                         *)
(***************************************************************************)
EXTENDS Integers, Sequences, FiniteSets, TLC

VARIABLES
    apiKey,        \* CloudFallback.apiKey: a JS value, null or a string
    isEnabled,     \* CloudFallback.isEnabled
    db,            \* LocalBackend.db: "null" before initialize, "open" after
    pyodide,       \* LocalBackend.pyodide: "null", "loaded" (without packages), "ready"
    isInitialized, \* LocalBackend.isInitialized
    initCall,      \* harness: the call of initialize and what it gave back
    datasets,      \* object store 'datasets': sequence of records in key order
    conversations, \* object store 'conversations'
    settings,      \* object store 'settings': sequence of [key, value]
    listed,        \* DataUpload state `datasets`: the records it shows
    isUploading,   \* DataUpload state `isUploading`
    analysisResult, \* DataUpload state `analysisResult`
    panel,         \* SettingsPanel state: cloudEnabled, apiKey, isLoading
    messages,      \* ChatInterface state `messages`
    isProcessing,  \* ChatInterface state `isProcessing`
    pc,            \* where the running asynchronous handler is suspended
    turn,          \* the locals of the running handler (its closure)
    now,           \* the wall clock read by Date.now()
    toasts,        \* the toasts shown so far
    net,           \* the requests handed to fetch so far, in order
    call,          \* harness: the operation invoked on a unit
    ret            \* harness: what that operation gave back

vars == <<apiKey, isEnabled, db, pyodide, isInitialized, initCall, datasets,
          conversations, settings, listed, isUploading, analysisResult, panel, messages, isProcessing, pc, turn, now,
          toasts, net, call, ret>>

cloudVars == <<apiKey, isEnabled>>
storeVars == <<db, pyodide, isInitialized, initCall, datasets, conversations, settings>>
uploadVars == <<listed, isUploading, analysisResult>>
chatVars  == <<messages, isProcessing, pc, turn, now, toasts>>

\* ------------------------------------------------------------------------
\* JavaScript values
\* ------------------------------------------------------------------------

JSNull    == [t |-> "null", b |-> FALSE, n |-> 0, s |-> ""]
JSBool(x) == [t |-> "bool", b |-> x, n |-> 0, s |-> ""]
JSNum(x)  == [t |-> "num", b |-> FALSE, n |-> x, s |-> ""]
JSStr(x)  == [t |-> "str", b |-> FALSE, n |-> 0, s |-> x]

\* a test against null in place of ToBoolean
Truthy_NotNull(v) == v.t # "null"

\* ToBoolean: what `!!v`, `v || w` and `if (v)` test
Truthy(v) ==
    CASE v.t = "bool" -> v.b
      [] v.t = "num"  -> v.n # 0
      [] v.t = "str"  -> v.s # ""
      [] v.t \in {"null", "undefined"} -> FALSE
      [] OTHER        -> TRUE

\* v || w
JSOr(v, w) == IF Truthy(v) THEN v ELSE w

\* toast({title, description})
Toast(title, description) == [title |-> title, description |-> description]

\* how a call ended: it threw (its promise rejected) with a message, or it
\* returned a value; NoRet while it has not ended
NoRet      == [done |-> FALSE, threw |-> FALSE, error |-> "", value |-> ""]
Threw(msg) == [done |-> TRUE, threw |-> TRUE, error |-> msg, value |-> ""]
Gave(v)    == [done |-> TRUE, threw |-> FALSE, error |-> "", value |-> v]

\* ------------------------------------------------------------------------
\* JavaScript string methods
\* ------------------------------------------------------------------------

CharAt(s, i) == SubSeq(s, i, i)

UpperLetters == "ABCDEFGHIJKLMNOPQRSTUVWXYZ"
LowerLetters == "abcdefghijklmnopqrstuvwxyz"
Digits       == "0123456789"

IndexIn(alphabet, c) ==
    IF \E i \in 1..Len(alphabet) : CharAt(alphabet, i) = c
    THEN CHOOSE i \in 1..Len(alphabet) : CharAt(alphabet, i) = c
    ELSE 0

\* the lower-case letter of each upper-case letter
LowerOf ==
    [c \in {CharAt(UpperLetters, i) : i \in 1..Len(UpperLetters)} |->
        CharAt(LowerLetters, IndexIn(UpperLetters, c))]

LowerChar(c) == IF c \in DOMAIN LowerOf THEN LowerOf[c] ELSE c

\* String.prototype.toLowerCase (the text is halved to keep the recursion shallow)
RECURSIVE toLowerCase(_)
toLowerCase(s) ==
    IF Len(s) <= 1 THEN LowerChar(s)
    ELSE LET h == Len(s) \div 2
         IN  toLowerCase(SubSeq(s, 1, h)) \o toLowerCase(SubSeq(s, h + 1, Len(s)))

\* String.prototype.includes
Includes(s, sub) ==
    \E i \in 1..(Len(s) - Len(sub) + 1) : SubSeq(s, i, i + Len(sub) - 1) = sub

\* String.prototype.endsWith
EndsWith(s, suffix) ==
    /\ Len(suffix) <= Len(s)
    /\ SubSeq(s, Len(s) - Len(suffix) + 1, Len(s)) = suffix

IsSpace(c) == c \in {" ", "\n", "\t", "\r"}

\* String.prototype.trim
\* the first position >= i of s that holds white space (or none: Len(s) + 1)
NextSpace(s, i) ==
    LET at == {j \in i..Len(s) : IsSpace(CharAt(s, j))}
    IN  IF at = {} THEN Len(s) + 1 ELSE CHOOSE j \in at : \A k \in at : j <= k

\* the first position >= i of s that holds no white space (or Len(s) + 1)
NextNonSpace(s, i) ==
    LET at == {j \in i..Len(s) : ~IsSpace(CharAt(s, j))}
    IN  IF at = {} THEN Len(s) + 1 ELSE CHOOSE j \in at : \A k \in at : j <= k

\* the last position of s that holds no white space (or 0)
LastNonSpace(s) ==
    LET at == {j \in 1..Len(s) : ~IsSpace(CharAt(s, j))}
    IN  IF at = {} THEN 0 ELSE CHOOSE j \in at : \A k \in at : j >= k

\* String.prototype.trim
Trim(s) == SubSeq(s, NextNonSpace(s, 1), LastNonSpace(s))

\* s.split(/\s+/): the pieces between maximal runs of white space; a run at
\* either end leaves an empty piece there, and "" gives [""].
RECURSIVE SplitFrom(_, _)
SplitFrom(s, i) ==
    LET j == NextSpace(s, i)
    IN  IF j > Len(s) THEN <<SubSeq(s, i, Len(s))>>
        ELSE <<SubSeq(s, i, j - 1)>> \o SplitFrom(s, NextNonSpace(s, j))

SplitSpaces(s) == SplitFrom(s, 1)

\* Array.prototype.join
RECURSIVE Join(_, _)
Join(seq, sep) ==
    IF seq = <<>> THEN ""
    ELSE IF Len(seq) = 1 THEN seq[1]
    ELSE seq[1] \o sep \o Join(Tail(seq), sep)

\* Array.prototype.slice(-k)
SliceLast(seq, k) ==
    IF Len(seq) <= k THEN seq ELSE SubSeq(seq, Len(seq) - k + 1, Len(seq))

\* Array.prototype.slice(0, k)
SliceFirst(seq, k) ==
    IF Len(seq) <= k THEN seq ELSE SubSeq(seq, 1, k)

\* ------------------------------------------------------------------------
\* Local analyzer (LocalBackend, text operations)
\* ------------------------------------------------------------------------

positiveWords == {"good", "great", "excellent", "amazing", "wonderful", "fantastic", "love", "like"}
negativeWords == {"bad", "terrible", "awful", "horrible", "hate", "dislike", "poor", "worst"}

IsPositive(w) == w \in positiveWords
IsNegative(w) == w \in negativeWords

Abs(x) == IF x < 0 THEN -x ELSE x

\* as basicSentimentAnalysis, but a tie counts as positive
basicSentimentAnalysis_TiesPositive(text) ==
    LET words    == SplitSpaces(toLowerCase(text))
        positive == Len(SelectSeq(words, IsPositive))
        negative == Len(SelectSeq(words, IsNegative))
    IN  [sentiment |-> IF positive >= negative THEN "positive" ELSE "negative",
         confNum   |-> Abs(positive - negative),
         confDen   |-> Len(words),
         positive  |-> positive,
         negative  |-> negative]

\* confidence is the fraction confNum / confDen (confDen = words.length, which
\* is never 0: split gives at least one piece)
basicSentimentAnalysis(text) ==
    LET words    == SplitSpaces(toLowerCase(text))
        positive == Len(SelectSeq(words, IsPositive))
        negative == Len(SelectSeq(words, IsNegative))
    IN  [sentiment |-> IF positive > negative THEN "positive"
                       ELSE IF negative > positive THEN "negative"
                       ELSE "neutral",
         confNum   |-> Abs(positive - negative),
         confDen   |-> Len(words),
         positive  |-> positive,
         negative  |-> negative]

\* \w of a regular expression
IsWordChar(c) ==
    \/ IndexIn(LowerLetters, c) # 0
    \/ IndexIn(UpperLetters, c) # 0
    \/ IndexIn(Digits, c) # 0
    \/ c = "_"

\* s.replace(/[^\w\s]/g, '')
RECURSIVE StripPunctuation(_)
StripPunctuation(s) ==
    IF Len(s) <= 1 THEN (IF IsWordChar(s) \/ IsSpace(s) THEN s ELSE "")
    ELSE LET h == Len(s) \div 2
         IN  StripPunctuation(SubSeq(s, 1, h)) \o StripPunctuation(SubSeq(s, h + 1, Len(s)))

IsLongWord(w) == Len(w) > 3

AllDigits(s) == \A i \in 1..Len(s) : IndexIn(Digits, CharAt(s, i)) # 0

\* a < b for digit strings of the same length
RECURSIVE DigitsLess(_, _)
DigitsLess(a, b) ==
    IF a = "" THEN FALSE
    ELSE LET x == IndexIn(Digits, CharAt(a, 1))
             y == IndexIn(Digits, CharAt(b, 1))
         IN  x < y \/ (x = y /\ DigitsLess(SubSeq(a, 2, Len(a)), SubSeq(b, 2, Len(b))))

\* a < b for canonical (no leading zero) digit strings
NumericLess(a, b) == Len(a) < Len(b) \/ (Len(a) = Len(b) /\ DigitsLess(a, b))

MaxArrayIndex == "4294967294"

\* A property key that is a canonical array index: own-property enumeration
\* (Object.entries) lists these first, in ascending numeric order.
IsArrayIndex(w) ==
    /\ w # ""
    /\ AllDigits(w)
    /\ (Len(w) = 1 \/ CharAt(w, 1) # "0")
    /\ (w = MaxArrayIndex \/ NumericLess(w, MaxArrayIndex))

IsStringKey(w) == ~IsArrayIndex(w)

\* the distinct elements of a sequence, in first-seen order
RECURSIVE FirstSeen(_, _)
FirstSeen(seq, seen) ==
    IF seq = <<>> THEN <<>>
    ELSE IF seq[1] \in seen THEN FirstSeen(Tail(seq), seen)
    ELSE <<seq[1]>> \o FirstSeen(Tail(seq), seen \cup {seq[1]})

RECURSIVE InsertAscending(_, _)
InsertAscending(sorted, w) ==
    IF sorted = <<>> THEN <<w>>
    ELSE IF NumericLess(w, sorted[1]) THEN <<w>> \o sorted
    ELSE <<sorted[1]>> \o InsertAscending(Tail(sorted), w)

RECURSIVE SortAscending(_)
SortAscending(seq) ==
    IF seq = <<>> THEN <<>>
    ELSE InsertAscending(SortAscending(SubSeq(seq, 1, Len(seq) - 1)), seq[Len(seq)])

\* the keys of the `frequency` object in the order Object.entries gives them
ObjectKeys(insertionOrder) ==
    SortAscending(SelectSeq(insertionOrder, IsArrayIndex))
        \o SelectSeq(insertionOrder, IsStringKey)

CountOf(words, w) == Cardinality({i \in 1..Len(words) : words[i] = w})

\* Array.prototype.sort(([,a],[,b]) => b - a): stable, descending count
RECURSIVE InsertByCount(_, _)
InsertByCount(sorted, e) ==
    IF sorted = <<>> THEN <<e>>
    ELSE IF sorted[1].count < e.count THEN <<e>> \o sorted
    ELSE <<sorted[1]>> \o InsertByCount(Tail(sorted), e)

RECURSIVE SortByCount(_)
SortByCount(entries) ==
    IF entries = <<>> THEN <<>>
    ELSE InsertByCount(SortByCount(SubSeq(entries, 1, Len(entries) - 1)),
                       entries[Len(entries)])

TopKeywords == 10

\* as extractKeywords, but short words are counted too
extractKeywords_KeepsShort(text) ==
    LET words   == SplitSpaces(StripPunctuation(toLowerCase(text)))
        keys    == ObjectKeys(FirstSeen(words, {}))
        entries == [i \in 1..Len(keys) |-> [word |-> keys[i], count |-> CountOf(words, keys[i])]]
    IN  [keywords   |-> SliceFirst(SortByCount(entries), TopKeywords),
         totalWords |-> Len(words)]

extractKeywords(text) ==
    LET words   == SelectSeq(SplitSpaces(StripPunctuation(toLowerCase(text))), IsLongWord)
        keys    == ObjectKeys(FirstSeen(words, {}))
        entries == [i \in 1..Len(keys) |-> [word |-> keys[i], count |-> CountOf(words, keys[i])]]
    IN  [keywords   |-> SliceFirst(SortByCount(entries), TopKeywords),
         totalWords |-> Len(words)]

IsTerminator(c) == c \in {".", "!", "?"}

\* the first position >= i of s that holds a sentence terminator (or Len(s) + 1)
NextTerminator(s, i) ==
    LET at == {j \in i..Len(s) : IsTerminator(CharAt(s, j))}
    IN  IF at = {} THEN Len(s) + 1 ELSE CHOOSE j \in at : \A k \in at : j <= k

\* the first position >= i of s that holds no sentence terminator (or Len(s) + 1)
NextNonTerminator(s, i) ==
    LET at == {j \in i..Len(s) : ~IsTerminator(CharAt(s, j))}
    IN  IF at = {} THEN Len(s) + 1 ELSE CHOOSE j \in at : \A k \in at : j <= k

\* s.split(/[.!?]+/): the pieces between maximal runs of terminators; a run at
\* either end leaves an empty piece there
RECURSIVE SplitSentencesFrom(_, _)
SplitSentencesFrom(s, i) ==
    LET j == NextTerminator(s, i)
    IN  IF j > Len(s) THEN <<SubSeq(s, i, Len(s))>>
        ELSE <<SubSeq(s, i, j - 1)>> \o SplitSentencesFrom(s, NextNonTerminator(s, j))

IsNonBlank(piece) == Len(Trim(piece)) > 0

MaxSummary == 3

\* Math.ceil(n * 0.3). The product is a binary64 number within a few ulps of
\* 3n/10, which is an integer only when n is a multiple of 10: for n < 10 the
\* rounded product has the ceiling of the exact one, and for n >= 10 both
\* ceilings are at least 3, which is all the caller keeps of them.
CeilThreeTenths(n) == (3 * n + 9) \div 10

\* as basicSummarization, without the cap of 3
basicSummarization_Uncapped(text) ==
    LET sentences == SelectSeq(SplitSentencesFrom(text, 1), IsNonBlank)
        summary   == SliceFirst(sentences, CeilThreeTenths(Len(sentences)))
    IN  [summary        |-> Join(summary, ". ") \o ".",
         originalLength |-> Len(sentences),
         summaryLength  |-> Len(summary)]

basicSummarization(text) ==
    LET sentences == SelectSeq(SplitSentencesFrom(text, 1), IsNonBlank)
        k         == IF MaxSummary < CeilThreeTenths(Len(sentences))
                     THEN MaxSummary ELSE CeilThreeTenths(Len(sentences))
        summary   == SliceFirst(sentences, k)
    IN  [summary        |-> Join(summary, ". ") \o ".",
         originalLength |-> Len(sentences),
         summaryLength  |-> Len(summary)]

processTextLocally(text, operation) ==
    CASE operation = "sentiment" -> basicSentimentAnalysis(text)
      [] operation = "keywords"  -> extractKeywords(text)
      [] operation = "summary"   -> basicSummarization(text)
      [] OTHER                   -> [text |-> text, processed |-> TRUE]

\* ------------------------------------------------------------------------
\* Structured values: arrays and objects, JSON.stringify
\* ------------------------------------------------------------------------

JSUndefined    == [t |-> "undefined"]
JSArr(items)   == [t |-> "arr", items |-> items]
\* an object: its own properties in enumeration order
JSObj(entries) == [t |-> "obj", entries |-> entries]

Property(key, value) == [key |-> key, value |-> value]

HasProperty(entries, key) == \E i \in 1..Len(entries) : entries[i].key = key

\* the position a new property takes: array-index keys come first, in
\* ascending order, the other keys follow in insertion order
RECURSIVE PropertySlot(_, _, _)
PropertySlot(entries, key, i) ==
    IF i > Len(entries) THEN i
    ELSE IF IsArrayIndex(key)
              /\ (IsStringKey(entries[i].key) \/ NumericLess(key, entries[i].key))
         THEN i
         ELSE PropertySlot(entries, key, i + 1)

\* obj[key] = value
SetProperty(entries, key, value) ==
    IF HasProperty(entries, key)
    THEN [i \in 1..Len(entries) |->
             IF entries[i].key = key THEN Property(key, value) ELSE entries[i]]
    ELSE LET at == PropertySlot(entries, key, 1)
         IN  SubSeq(entries, 1, at - 1) \o <<Property(key, value)>>
                 \o SubSeq(entries, at, Len(entries))

\* the escapes JSON.stringify writes inside a string literal
EscapeChar(c) ==
    CASE c = "\"" -> "\\\""
      [] c = "\\" -> "\\\\"
      [] c = "\n" -> "\\n"
      [] c = "\r" -> "\\r"
      [] c = "\t" -> "\\t"
      [] OTHER    -> c

RECURSIVE Escape(_)
Escape(s) ==
    IF Len(s) <= 1 THEN (IF s = "" THEN "" ELSE EscapeChar(s))
    ELSE LET h == Len(s) \div 2
         IN  Escape(SubSeq(s, 1, h)) \o Escape(SubSeq(s, h + 1, Len(s)))

Quote(s) == "\"" \o Escape(s) \o "\""

\* JSON.stringify of a value that JSON.parse or parseCSV produced
RECURSIVE Stringify(_)
Stringify(v) ==
    CASE v.t = "null" -> "null"
      [] v.t = "bool" -> (IF v.b THEN "true" ELSE "false")
      [] v.t = "num"  -> ToString(v.n)
      [] v.t = "str"  -> Quote(v.s)
      [] v.t = "arr"  ->
            "[" \o Join([i \in 1..Len(v.items) |-> Stringify(v.items[i])], ",") \o "]"
      [] v.t = "obj"  ->
            "{" \o Join([i \in 1..Len(v.entries) |->
                            Quote(v.entries[i].key) \o ":" \o Stringify(v.entries[i].value)],
                        ",") \o "}"

\* ------------------------------------------------------------------------
\* Persistent store (LocalBackend, database operations)
\* ------------------------------------------------------------------------

NotInitialized  == "Database not initialized"
ConstraintError == "Key already exists in the object store."
DatabaseError   == "the IndexedDB request failed"

\* the code units of the characters that keys are made of, in ascending order
KeyCharacters == Digits \o UpperLetters \o LowerLetters

\* a < b as IndexedDB orders string keys: by code unit, a prefix first
RECURSIVE KeyLess(_, _)
KeyLess(a, b) ==
    IF b = "" THEN FALSE
    ELSE IF a = "" THEN TRUE
    ELSE LET x == IndexIn(KeyCharacters, CharAt(a, 1))
             y == IndexIn(KeyCharacters, CharAt(b, 1))
         IN  x < y \/ (x = y /\ KeyLess(SubSeq(a, 2, Len(a)), SubSeq(b, 2, Len(b))))

\* the call of initialize: how the load of the interpreter went ("untried",
\* "failed", "loaded") and how the call ended
NoInit == [interpreter |-> "untried", ret |-> NoRet]

\* initialize returned on an open database, the interpreter not loaded
InitializedWithout == [interpreter |-> "failed", ret |-> Gave(JSUndefined)]

\* the key of a record: keyPath 'id' (datasets, conversations) or 'key' (settings)
KeyOf(r) == IF "id" \in DOMAIN r THEN r.id ELSE r.key

HasKey(store, k) == \E i \in 1..Len(store) : KeyOf(store[i]) = k

Without(store, k) == SelectSeq(store, LAMBDA r : KeyOf(r) # k)

RECURSIVE InsertByKey(_, _)
InsertByKey(store, r) ==
    IF store = <<>> THEN <<r>>
    ELSE IF KeyLess(KeyOf(r), KeyOf(store[1])) THEN <<r>> \o store
    ELSE <<store[1]>> \o InsertByKey(Tail(store), r)

\* IDBObjectStore.put: the record replaces the one stored under its key
Put(store, r) == InsertByKey(Without(store, KeyOf(r)), r)

\* IDBObjectStore.get: the record under the key, or undefined
Get(store, k) ==
    IF HasKey(store, k)
    THEN store[CHOOSE i \in 1..Len(store) : KeyOf(store[i]) = k]
    ELSE JSUndefined

\* lines 210-217: the record saveDataset builds at the time it is called
NewDataset(name, data, time) ==
    [id |-> ToString(time), name |-> name, data |-> data, created |-> time,
     size |-> Len(Stringify(data))]

\* getDatasets: [] before initialize, else every record of the store
getDatasets == IF db = "null" THEN <<>> ELSE datasets

\* getConversations
getConversations == IF db = "null" THEN <<>> ELSE conversations

\* getSetting: `setting?.value || null`
getSetting(key) ==
    IF db = "null" THEN JSNull
    ELSE LET setting == Get(settings, key)
         IN  IF setting = JSUndefined THEN JSNull ELSE JSOr(setting.value, JSNull)

\* ------------------------------------------------------------------------
\* Query router (ChatInterface.processLocalQuery)
\* ------------------------------------------------------------------------

\* (x * 100).toFixed(1) for the fraction x = num / den >= 0: one decimal,
\* the nearer tenth, the larger one when both are equally near
ToFixed1Percent(num, den) ==
    LET tenths == (2000 * num + den) \div (2 * den)
    IN  ToString(tenths \div 10) \o "." \o ToString(tenths % 10)

NoDatasetsReply ==
    "I can help you analyze data! Please upload a dataset first using the data upload section."

DatasetsReply(n) ==
    "I found " \o ToString(n) \o " dataset(s) in your local storage. I can perform basic analysis like summaries, statistics, and filtering. What would you like to know about your data?"

SentimentReply(r) ==
    "Based on local sentiment analysis: This text appears to be **" \o r.sentiment
        \o "** (confidence: " \o ToFixed1Percent(r.confNum, r.confDen)
        \o "%). I detected " \o ToString(r.positive) \o " positive and "
        \o ToString(r.negative) \o " negative indicators."

KeywordWords(r) == [i \in 1..Len(r.keywords) |-> r.keywords[i].word]

KeywordsReply(r) == "Key words extracted locally: " \o Join(KeywordWords(r), ", ")

GreetingReply ==
    "Hello! I'm running locally on your device. I can help you with data analysis, text processing, and simple conversations. What can I help you with today?"

\* the pictographs that open the four bullet lines are written as '*'
HelpReply ==
    "Here's what I can do locally:\n        \n"
        \o "* **Data Analysis**: Upload CSV/JSON files for analysis, statistics, and summaries\n"
        \o "* **Text Processing**: Sentiment analysis, keyword extraction, basic summarization  \n"
        \o "* **Simple Chat**: Basic conversations and help\n"
        \o "* **Local Search**: Find and filter your stored data\n\n"
        \o "For more advanced AI capabilities, you can enable cloud processing in the settings panel."

ComplexReply ==
    "This seems like a complex question that could benefit from advanced AI processing."

DefaultReply ==
    "I processed your message locally. For more sophisticated responses, you can enable cloud processing in settings. How else can I help you?"

ComplexLength == 100

\* line 202: the query is one the router answers from the dataset store
WantsDatasets(query) ==
    LET lowerQuery == toLowerCase(query)
    IN  Includes(lowerQuery, "data") \/ Includes(lowerQuery, "analyze")
            \/ Includes(lowerQuery, "dataset")

\* lines 204-215: the answer of the first rule, once getDatasets has settled
DatasetsAnswer(storedDatasets) ==
    IF Len(storedDatasets) = 0
    THEN [response |-> NoDatasetsReply, needsCloudFallback |-> FALSE]
    ELSE [response |-> DatasetsReply(Len(storedDatasets)), needsCloudFallback |-> FALSE]

\* processLocalQuery with the complexity test moved ahead of the keyword tests
processLocalQuery_ComplexFirst(query, storedDatasets) ==
    LET lowerQuery == toLowerCase(query)
    IN  IF Len(query) > ComplexLength \/ Includes(lowerQuery, "explain")
               \/ Includes(lowerQuery, "complex") \/ Includes(lowerQuery, "detailed")
        THEN [response |-> ComplexReply, needsCloudFallback |-> TRUE]
        ELSE IF Includes(lowerQuery, "data") \/ Includes(lowerQuery, "analyze")
               \/ Includes(lowerQuery, "dataset")
        THEN IF Len(storedDatasets) = 0
             THEN [response |-> NoDatasetsReply, needsCloudFallback |-> FALSE]
             ELSE [response |-> DatasetsReply(Len(storedDatasets)), needsCloudFallback |-> FALSE]
        ELSE IF Includes(lowerQuery, "sentiment") \/ Includes(lowerQuery, "feeling")
               \/ Includes(lowerQuery, "emotion")
        THEN [response |-> SentimentReply(basicSentimentAnalysis(query)),
              needsCloudFallback |-> FALSE]
        ELSE IF Includes(lowerQuery, "keyword") \/ Includes(lowerQuery, "important words")
        THEN [response |-> KeywordsReply(extractKeywords(query)),
              needsCloudFallback |-> FALSE]
        ELSE IF Includes(lowerQuery, "hello") \/ Includes(lowerQuery, "hi")
               \/ Includes(lowerQuery, "hey")
        THEN [response |-> GreetingReply, needsCloudFallback |-> FALSE]
        ELSE IF Includes(lowerQuery, "help") \/ Includes(lowerQuery, "what can you do")
        THEN [response |-> HelpReply, needsCloudFallback |-> FALSE]
        ELSE [response |-> DefaultReply, needsCloudFallback |-> TRUE]

\* storedDatasets: what `await localBackend.getDatasets()` gave (read only by
\* the first branch)
processLocalQuery(query, storedDatasets) ==
    LET lowerQuery == toLowerCase(query)
    IN  IF Includes(lowerQuery, "data") \/ Includes(lowerQuery, "analyze")
               \/ Includes(lowerQuery, "dataset")
        THEN DatasetsAnswer(storedDatasets)
        ELSE IF Includes(lowerQuery, "sentiment") \/ Includes(lowerQuery, "feeling")
               \/ Includes(lowerQuery, "emotion")
        THEN [response |-> SentimentReply(basicSentimentAnalysis(query)),
              needsCloudFallback |-> FALSE]
        ELSE IF Includes(lowerQuery, "keyword") \/ Includes(lowerQuery, "important words")
        THEN [response |-> KeywordsReply(extractKeywords(query)),
              needsCloudFallback |-> FALSE]
        ELSE IF Includes(lowerQuery, "hello") \/ Includes(lowerQuery, "hi")
               \/ Includes(lowerQuery, "hey")
        THEN [response |-> GreetingReply, needsCloudFallback |-> FALSE]
        ELSE IF Includes(lowerQuery, "help") \/ Includes(lowerQuery, "what can you do")
        THEN [response |-> HelpReply, needsCloudFallback |-> FALSE]
        ELSE IF Len(query) > ComplexLength \/ Includes(lowerQuery, "explain")
               \/ Includes(lowerQuery, "complex") \/ Includes(lowerQuery, "detailed")
        THEN [response |-> ComplexReply, needsCloudFallback |-> TRUE]
        ELSE [response |-> DefaultReply, needsCloudFallback |-> TRUE]

\* ------------------------------------------------------------------------
\* Cloud client (CloudFallback)
\* ------------------------------------------------------------------------

getStatus == [hasApiKey |-> Truthy(apiKey), isEnabled |-> isEnabled]

DisabledError == "Cloud processing is disabled"
NoKeyError    == "GPT API key not provided"

\* processWithGPT with the two tests in the other order
processWithGPTGuard_KeyFirst ==
    IF ~Truthy(apiKey) THEN NoKeyError
    ELSE IF ~isEnabled THEN DisabledError
    ELSE ""

\* processWithGPT up to its first await: the message of the error it throws,
\* or "" when it goes on to hand the request to fetch
processWithGPTGuard ==
    IF ~isEnabled THEN DisabledError
    ELSE IF ~Truthy(apiKey) THEN NoKeyError
    ELSE ""

\* the request handed to fetch: who asked, the Authorization header, and the
\* `messages` of the body
Request(by, msgs) ==
    [by |-> by, authorization |-> "Bearer " \o apiKey.s, messages |-> msgs]

\* what `await fetch(...)` can give: a rejection (network error) or a response
NetworkError == [rejected |-> TRUE, status |-> 0, statusText |-> "Failed to fetch"]
HttpResponse(status, statusText) ==
    [rejected |-> FALSE, status |-> status, statusText |-> statusText]

FetchOutcomes ==
    {NetworkError, HttpResponse(200, "OK"), HttpResponse(401, "Unauthorized"),
     HttpResponse(500, "Internal Server Error")}

\* Response.ok
ResponseOk(r) == 200 <= r.status /\ r.status <= 299

ApiError(r) == "GPT API error: " \o ToString(r.status) \o " " \o r.statusText

\* what `await response.json()` can give: a rejection (the body is no JSON),
\* or data with a list of choices
MalformedBody == [parses |-> FALSE, hasChoices |-> FALSE, choices |-> <<>>]
NoChoicesField == [parses |-> TRUE, hasChoices |-> FALSE, choices |-> <<>>]
Completion(cs) == [parses |-> TRUE, hasChoices |-> TRUE, choices |-> cs]

CloudReplies == {"Gravity attracts masses.", ""}

Bodies ==
    {MalformedBody, NoChoicesField, Completion(<<>>)}
        \cup {Completion(<<[content |-> c]>>) : c \in CloudReplies}

BodyError == "the response body could not be read"

\* lines 64-65: data.choices[0]?.message.content || ''
ReadCompletion(body) ==
    IF ~body.parses \/ ~body.hasChoices THEN Threw(BodyError)
    ELSE IF body.choices = <<>> THEN Gave("")
    ELSE Gave(body.choices[1].content)

\* lines 46-62: the outcome of fetch ends the call with an error, or the call
\* goes on to read the body (NoRet: not ended yet)
AfterFetch(outcome) ==
    IF outcome.rejected THEN Threw(outcome.statusText)
    ELSE IF ~ResponseOk(outcome) THEN Threw(ApiError(outcome))
    ELSE NoRet

SystemPrompt ==
    "You are a helpful AI assistant for a local-first data analysis app. Be concise and practical."

HistoryLimit == 5

\* chatWithGPT passing the whole history on
chatMessages_Uncapped(userMessage, conversationHistory) ==
    <<[role |-> "system", content |-> SystemPrompt]>>
        \o conversationHistory
        \o <<[role |-> "user", content |-> userMessage]>>

\* the `messages` chatWithGPT passes to processWithGPT
chatMessages(userMessage, conversationHistory) ==
    <<[role |-> "system", content |-> SystemPrompt]>>
        \o SliceLast(conversationHistory, HistoryLimit)
        \o <<[role |-> "user", content |-> userMessage]>>

\* ------------------------------------------------------------------------
\* Chat view (ChatInterface): handleSubmit and processMessage
\* ------------------------------------------------------------------------

Hint == "\n\n* For more advanced responses, you can enable cloud processing in settings."

ErrorReply == "Sorry, I encountered an error processing your request. Please try again."

WelcomeText ==
    "Hello! I'm your local-first AI assistant. I can help you analyze data, answer questions, and more - all running locally on your device. Ask me anything!"

Message(id, role, content, time, processingType, isLoading) ==
    [id |-> id, role |-> role, content |-> content, timestamp |-> time,
     processingType |-> processingType, isLoading |-> isLoading]

\* the `messages` state of a freshly mounted chat view
InitialMessages(time) == <<Message("1", "assistant", WelcomeText, time, "local", FALSE)>>

NoLocal == [response |-> "", needsCloudFallback |-> FALSE]
\* SettingsPanel.tsx lines 15-18: the state of a panel just mounted
NoPanel == [cloudEnabled |-> FALSE, apiKey |-> "", isLoading |-> FALSE]

NoTurn  == [userMessage |-> "", history |-> <<>>, loadingId |-> "", local |-> NoLocal]

IsSettled(m) == m.role # "assistant" \/ ~m.isLoading

\* lines 151-152: the history processMessage hands to chatWithGPT
HistoryOf(msgs) ==
    LET kept == SelectSeq(msgs, IsSettled)
    IN  [i \in 1..Len(kept) |-> [role |-> kept[i].role, content |-> kept[i].content]]

\* the placeholder found by its position (the last entry) in place of its id
ResolveLoading_ByPosition(msgs, loadingId, content, processingType) ==
    [i \in 1..Len(msgs) |->
        IF i = Len(msgs)
        THEN [msgs[i] EXCEPT !.content = content, !.processingType = processingType,
                             !.isLoading = FALSE]
        ELSE msgs[i]]

\* lines 167-171 and 177-186: prev.map(msg => msg.id === loadingMsg.id ? {...} : msg)
ResolveLoading(msgs, loadingId, content, processingType) ==
    [i \in 1..Len(msgs) |->
        IF msgs[i].id = loadingId
        THEN [msgs[i] EXCEPT !.content = content, !.processingType = processingType,
                             !.isLoading = FALSE]
        ELSE msgs[i]]

\* the text given when the cloud is not used or has failed (lines 157, 160)
HintedReply_NoHint(local) == local.response

HintedReply(local) == local.response \o Hint

\* processMessage ends without its `finally`
Finish_NoFinally(msgs, loadingId, content, processingType) ==
    /\ messages' = ResolveLoading(msgs, loadingId, content, processingType)
    /\ isProcessing' = TRUE
    /\ pc' = "idle"
    /\ turn' = NoTurn

\* processMessage ends: the placeholder is resolved, `finally` runs
Finish(msgs, loadingId, content, processingType) ==
    /\ messages' = ResolveLoading(msgs, loadingId, content, processingType)
    /\ isProcessing' = FALSE
    /\ pc' = "idle"
    /\ turn' = NoTurn

\* lines 173-195: the outer catch
FinishWithError(msgs, loadingId) ==
    /\ Finish(msgs, loadingId, ErrorReply, "local")
    /\ toasts' = Append(toasts, Toast("Processing Error",
                                       "Failed to process your message. Please try again."))

\* AfterLocal with needsCloudFallback not consulted: every query goes on to
\* the cloud when it is available
AfterLocal_IgnoreFlag(msgs, t, local, c) ==
    IF getStatus.isEnabled /\ getStatus.hasApiKey /\ processWithGPTGuard = ""
    THEN /\ net' = Append(net, Request("chat", chatMessages(t.userMessage, t.history)))
         /\ messages' = msgs
         /\ isProcessing' = TRUE
         /\ pc' = "fetch"
         /\ turn' = [t EXCEPT !.local = local]
         /\ call' = [c EXCEPT !.cloud = "pending"]
    ELSE /\ Finish(msgs, t.loadingId, HintedReply(local), "local")
         /\ call' = c
         /\ net' = net

\* lines 144-171, entered with the result of processLocalQuery; `t` holds the
\* locals of this processMessage, `msgs` the message list after line 134, `c`
\* the record of this call
AfterLocal(msgs, t, local, c) ==
    IF local.needsCloudFallback
    THEN IF getStatus.isEnabled /\ getStatus.hasApiKey
         THEN IF processWithGPTGuard = ""
              THEN /\ net' = Append(net, Request("chat", chatMessages(t.userMessage, t.history)))
                   /\ messages' = msgs
                   /\ isProcessing' = TRUE
                   /\ pc' = "fetch"
                   /\ turn' = [t EXCEPT !.local = local]
                   /\ call' = [c EXCEPT !.cloud = "pending"]
              ELSE /\ Finish(msgs, t.loadingId, HintedReply(local), "local")
                   /\ call' = [c EXCEPT !.cloud = "failed"]
                   /\ net' = net
         ELSE /\ Finish(msgs, t.loadingId, HintedReply(local), "local")
              /\ call' = c
              /\ net' = net
    ELSE /\ Finish(msgs, t.loadingId, local.response, "local")
         /\ call' = c
         /\ net' = net

\* ------------------------------------------------------------------------
\* Local analyzer (LocalBackend, data operations)
\* ------------------------------------------------------------------------

\* Array.isArray(data) ? data : [data]
RowsOf(data) == IF data.t = "arr" THEN data.items ELSE <<data>>

\* Object.keys of a value that is not null or undefined: the property names
\* of an object, the indices of an array or a string, nothing for the rest
Keys(v) ==
    CASE v.t = "obj" -> [i \in 1..Len(v.entries) |-> v.entries[i].key]
      [] v.t = "arr" -> [i \in 1..Len(v.items) |-> ToString(i - 1)]
      [] v.t = "str" -> [i \in 1..Len(v.s) |-> ToString(i - 1)]
      [] OTHER       -> <<>>

\* data[0] || {}
FirstRow(rows) ==
    IF rows # <<>> /\ Truthy(rows[1]) THEN rows[1] ELSE JSObj(<<>>)

SampleRows == 5

EntriesError == "Cannot convert undefined or null to object"

StatsMessage == "Basic stats computed locally"

\* the 'stats' branch with the rows left unread
FallbackStats_RowsUnread(rows) ==
    Gave(JSObj(<<Property("message", JSStr(StatsMessage))>>))

\* lines 139-143: Object.entries(row) is evaluated for every row, and throws a
\* TypeError on a row that is null or undefined
FallbackStats(rows) ==
    IF \E i \in 1..Len(rows) : rows[i].t \in {"null", "undefined"}
    THEN Threw(EntriesError)
    ELSE Gave(JSObj(<<Property("message", JSStr(StatsMessage))>>))

\* the 'summary' branch sampling every row
FallbackSummary_AllRows(rows) ==
    LET columns == Keys(FirstRow(rows))
    IN  Gave(JSObj(<<Property("shape", JSArr(<<JSNum(Len(rows)), JSNum(Len(columns))>>)),
                     Property("columns", JSArr([i \in 1..Len(columns) |-> JSStr(columns[i])])),
                     Property("sample", JSArr(rows))>>))

\* lines 133-138
FallbackSummary(rows) ==
    LET columns == Keys(FirstRow(rows))
    IN  Gave(JSObj(<<Property("shape", JSArr(<<JSNum(Len(rows)), JSNum(Len(columns))>>)),
                     Property("columns", JSArr([i \in 1..Len(columns) |-> JSStr(columns[i])])),
                     Property("sample", JSArr(SliceFirst(rows, SampleRows)))>>))

\* fallbackDataProcessing: what it returns, or the error it throws
fallbackDataProcessing(data, operation) ==
    LET rows == RowsOf(data)
    IN  CASE operation = "summary" -> FallbackSummary(rows)
          [] operation = "stats"   -> FallbackStats(rows)
          [] OTHER ->
                Gave(JSObj(<<Property("processed", JSBool(TRUE)),
                             Property("rows", JSNum(Len(rows)))>>))

\* result.toJs(): what the pandas snippet computed; it is not read further
PythonResult(data, operation) == [t |-> "py", operation |-> operation, data |-> data]

\* processDataLocally without the catch around the interpreter
processDataLocally_Uncaught(data, operation, pythonThrows) ==
    IF pyodide = "null" THEN fallbackDataProcessing(data, operation)
    ELSE IF pyodide = "loaded" \/ pythonThrows THEN Threw("PythonError")
    ELSE Gave(PythonResult(data, operation))

\* processDataLocally: runPython throws when pandas was not installed
\* (pyodide = "loaded") and may throw otherwise
processDataLocally(data, operation, pythonThrows) ==
    IF pyodide = "null" THEN fallbackDataProcessing(data, operation)
    ELSE IF pyodide = "loaded" \/ pythonThrows THEN fallbackDataProcessing(data, operation)
    ELSE Gave(PythonResult(data, operation))

\* ------------------------------------------------------------------------
\* Data view (DataUpload): reading an imported file
\* ------------------------------------------------------------------------

\* the first position >= i of s that holds the character c (or Len(s) + 1)
NextAt(s, c, i) ==
    LET at == {j \in i..Len(s) : CharAt(s, j) = c}
    IN  IF at = {} THEN Len(s) + 1 ELSE CHOOSE j \in at : \A k \in at : j <= k

\* s.split(c) for a separator of one character; "" gives [""]
RECURSIVE SplitAt(_, _, _)
SplitAt(s, c, i) ==
    LET j == NextAt(s, c, i)
    IN  IF j > Len(s) THEN <<SubSeq(s, i, Len(s))>>
        ELSE <<SubSeq(s, i, j - 1)>> \o SplitAt(s, c, j + 1)

Split(s, c) == SplitAt(s, c, 1)

\* s.replace(/"/g, '')
RECURSIVE RemoveQuotes(_)
RemoveQuotes(s) ==
    IF Len(s) <= 1 THEN (IF s = "\"" THEN "" ELSE s)
    ELSE LET h == Len(s) \div 2
         IN  RemoveQuotes(SubSeq(s, 1, h)) \o RemoveQuotes(SubSeq(s, h + 1, Len(s)))

\* line.split(',').map(v => v.trim().replace(/"/g, ''))
Cells(line) ==
    LET pieces == Split(line, ",")
    IN  [i \in 1..Len(pieces) |-> RemoveQuotes(Trim(pieces[i]))]

RECURSIVE DigitsValue(_)
DigitsValue(s) ==
    IF s = "" THEN 0
    ELSE 10 * DigitsValue(SubSeq(s, 1, Len(s) - 1)) + (IndexIn(Digits, CharAt(s, Len(s))) - 1)

NaN == [nan |-> TRUE, n |-> 0]

\* parseFloat on a text whose numeric prefix, if it has one, is a signed run of
\* digits (no fraction, no exponent, not "Infinity"): white space is skipped,
\* the longest such prefix is the number, no such prefix is NaN
parseFloat(s) ==
    LET t      == SubSeq(s, NextNonSpace(s, 1), Len(s))
        signed == t # "" /\ CharAt(t, 1) \in {"-", "+"}
        body   == IF signed THEN SubSeq(t, 2, Len(t)) ELSE t
        stops  == {j \in 1..Len(body) : IndexIn(Digits, CharAt(body, j)) = 0}
        run    == IF stops = {} THEN Len(body)
                  ELSE (CHOOSE j \in stops : \A k \in stops : j <= k) - 1
        value  == DigitsValue(SubSeq(body, 1, run))
    IN  IF run = 0 THEN NaN
        ELSE [nan |-> FALSE, n |-> IF signed /\ CharAt(t, 1) = "-" THEN 0 - value ELSE value]

\* lines 92-97: the row object built from one line, header by header
RECURSIVE RowFrom(_, _, _, _)
RowFrom(headers, values, index, entries) ==
    IF index > Len(headers) THEN JSObj(entries)
    ELSE LET value    == IF index <= Len(values) THEN values[index] ELSE ""
             numValue == parseFloat(value)
             cell     == IF numValue.nan THEN JSStr(value) ELSE JSNum(numValue.n)
         IN  RowFrom(headers, values, index + 1, SetProperty(entries, headers[index], cell))

\* parseCSV (text.trim().split('\n') has at least one piece)
parseCSV(text) ==
    LET lines   == Split(Trim(text), "\n")
        headers == Cells(lines[1])
    IN  JSArr([i \in 1..(Len(lines) - 1) |-> RowFrom(headers, Cells(lines[i + 1]), 1, <<>>)])

\* JSON.parse on the texts of the imported files: the value of a JSON text,
\* a SyntaxError for a text that is not JSON
ParsedJson ==
    ("[]" :> JSArr(<<>>))
    @@ ("[{\"a\":1}]" :> JSArr(<<JSObj(<<Property("a", JSNum(1))>>)>>))
    @@ ("{\"a\":1}" :> JSObj(<<Property("a", JSNum(1))>>))
    @@ ("null" :> JSNull)

MalformedJson == {"", "{oops", "[1,", "a,b\n1,x\n2,y"}

SyntaxError == "Unexpected token in JSON"

JSONParse(text) ==
    CASE text \in DOMAIN ParsedJson -> Gave(ParsedJson[text])
      [] text \in MalformedJson     -> Threw(SyntaxError)

UnsupportedType == "Unsupported file type. Please upload CSV or JSON files."

\* an unknown extension read as CSV in place of the rejection
ParseUpload_CsvByDefault(name, text) ==
    IF EndsWith(name, ".json") THEN JSONParse(text)
    ELSE Gave(parseCSV(text))

\* lines 51-57: the data of the file, by the extension of its name
ParseUpload(name, text) ==
    IF EndsWith(name, ".json") THEN JSONParse(text)
    ELSE IF EndsWith(name, ".csv") THEN Gave(parseCSV(text))
    ELSE Threw(UnsupportedType)

ReadError == "The requested file could not be read"

NoUpload == [name |-> "", text |-> "", dataset |-> JSNull]

\* ------------------------------------------------------------------------
\* Values the specifications draw from
\* ------------------------------------------------------------------------

\* `call` records the operation under way and what held when it was invoked
\* (prev: the call before it, with how it ended)
NoPrev == [op |-> "none", arg |-> "", value |-> JSNull, dbBefore |-> "null",
           returned |-> FALSE]
NoCall == [op |-> "none", arg |-> "", value |-> JSNull, seq |-> 0, netBefore |-> 0,
           toastsBefore |-> 0, wasEnabled |-> FALSE, key |-> JSNull,
           outcome |-> NetworkError, settled |-> FALSE, cloud |-> "none",
           dbBefore |-> "null", storedBefore |-> <<>>, saveCalls |-> 0,
           interpreter |-> "null", pythonThrows |-> FALSE,
           tokens |-> <<>>, qualifying |-> <<>>, sentences |-> <<>>, cells |-> <<>>,
           prev |-> NoPrev]
SampleDataset(i) ==
    NewDataset("sample.csv", JSArr(<<>>), i)

\* the stores a session can start from: none, one or two datasets saved earlier
StoredSamples == {<<>>, <<SampleDataset(11)>>, <<SampleDataset(11), SampleDataset(12)>>}

RECURSIVE Repeat(_, _)
Repeat(s, n) ==
    IF n = 0 THEN "" ELSE IF n = 1 THEN s
    ELSE Repeat(s, n \div 2) \o Repeat(s, n - (n \div 2))

LongWord == Repeat("z", ComplexLength + 1)

RouterWords ==
    {"data", "Analyze", "dataset", "sentiment", "feeling", "emotion", "keyword",
     "important words", "hello", "Hi", "hey", "help", "what can YOU do", "explain",
     "COMPLEX", "detailed", "this", "good", "awful", "gravity?", "ok", "2024",
     LongWord, Repeat("z", ComplexLength)}

RouterQueries ==
    RouterWords \cup {a \o " " \o b : a \in RouterWords \ {LongWord}, b \in RouterWords}

\* ------------------------------------------------------------------------
\* SpecRouter: processLocalQuery applied to a query, over a store
\* ------------------------------------------------------------------------

\* `await processLocalQuery(query)`: the result, or the rejection of getAll
RouteQuery(query, getAllFails) ==
    /\ call = NoCall
    /\ call' = [NoCall EXCEPT !.op = "processLocalQuery", !.arg = query]
    /\ ret' = IF WantsDatasets(query) /\ db # "null" /\ getAllFails
              THEN Threw(DatabaseError)
              ELSE Gave(processLocalQuery(query, getDatasets))
    /\ UNCHANGED <<panel, cloudVars, storeVars, uploadVars, chatVars, net>>

InitRouter ==
    /\ panel = NoPanel
    /\ apiKey = JSNull /\ isEnabled = FALSE
    /\ db \in {"null", "open"}
    /\ datasets \in (IF db = "null" THEN {<<>>} ELSE StoredSamples)
    /\ pyodide = "null" /\ isInitialized = (db = "open")
    /\ initCall = (IF db = "open" THEN InitializedWithout ELSE NoInit)
    /\ conversations = <<>> /\ settings = <<>>
    /\ listed = <<>> /\ isUploading = FALSE /\ analysisResult = JSNull
    /\ messages = <<>> /\ isProcessing = FALSE /\ pc = "idle" /\ turn = <<>>
    /\ now = 0 /\ toasts = <<>> /\ net = <<>>
    /\ call = NoCall /\ ret = NoRet

NextRouter == \E q \in RouterQueries, f \in BOOLEAN : RouteQuery(q, f)

SpecRouter == InitRouter /\ [][NextRouter]_vars

\* ------------------------------------------------------------------------
\* SpecCloud: the exported cloud client, driven through its public methods
\* ------------------------------------------------------------------------

MaxCalls == 2

ApiKeys == {"", "sk-test"}

SampleEnvelopes ==
    {chatMessages("Test message - please respond with 'Connection successful'", <<>>),
     chatMessages("explain gravity", <<[role |-> "user", content |-> "hello"]>>)}

setApiKey(key) ==
    /\ apiKey' = JSStr(key)
    /\ UNCHANGED <<panel, isEnabled, storeVars, uploadVars, chatVars, net, call, ret>>

setEnabled(enabled) ==
    /\ isEnabled' = enabled
    /\ UNCHANGED <<panel, apiKey, storeVars, uploadVars, chatVars, net, call, ret>>

\* processWithGPT(messages), up to the first await
CallProcessWithGPT(msgs) ==
    /\ pc = "idle"
    /\ call.seq < MaxCalls
    /\ call' = [NoCall EXCEPT !.op = "processWithGPT", !.seq = call.seq + 1,
                              !.netBefore = Len(net), !.wasEnabled = isEnabled,
                              !.key = apiKey]
    /\ IF processWithGPTGuard # ""
       THEN /\ ret' = Threw(processWithGPTGuard)
            /\ UNCHANGED <<net, pc>>
       ELSE /\ ret' = NoRet
            /\ net' = Append(net, Request("api", msgs))
            /\ pc' = "fetch"
    /\ UNCHANGED <<panel, cloudVars, storeVars, uploadVars, messages, isProcessing, turn, now, toasts>>

\* `await fetch(...)` settles
CloudFetchSettles(outcome) ==
    /\ pc = "fetch"
    /\ call.op = "processWithGPT"
    /\ call' = [call EXCEPT !.outcome = outcome, !.settled = TRUE]
    /\ IF AfterFetch(outcome).done
       THEN ret' = AfterFetch(outcome) /\ pc' = "idle"
       ELSE ret' = ret /\ pc' = "json"
    /\ UNCHANGED <<panel, cloudVars, storeVars, uploadVars, messages, isProcessing, turn, now, toasts, net>>

\* `await response.json()` settles
CloudJsonSettles(body) ==
    /\ pc = "json"
    /\ call.op = "processWithGPT"
    /\ ret' = ReadCompletion(body)
    /\ pc' = "idle"
    /\ UNCHANGED <<panel, cloudVars, storeVars, uploadVars, messages, isProcessing, turn, now, toasts, net, call>>

InitCloud ==
    /\ panel = NoPanel
    /\ apiKey = JSNull /\ isEnabled = FALSE
    /\ db = "null" /\ pyodide = "null" /\ isInitialized = FALSE
    /\ initCall = NoInit
    /\ datasets = <<>> /\ conversations = <<>> /\ settings = <<>>
    /\ listed = <<>> /\ isUploading = FALSE /\ analysisResult = JSNull
    /\ messages = <<>> /\ isProcessing = FALSE /\ pc = "idle" /\ turn = <<>>
    /\ now = 0 /\ toasts = <<>> /\ net = <<>>
    /\ call = NoCall /\ ret = NoRet

NextCloud ==
    \/ \E k \in ApiKeys : setApiKey(k)
    \/ \E b \in BOOLEAN : setEnabled(b)
    \/ \E msgs \in SampleEnvelopes : CallProcessWithGPT(msgs)
    \/ \E outcome \in FetchOutcomes : CloudFetchSettles(outcome)
    \/ \E body \in Bodies : CloudJsonSettles(body)

SpecCloud == InitCloud /\ [][NextCloud]_vars

\* ------------------------------------------------------------------------
\* Spec: the chat view over the store and the cloud client
\* ------------------------------------------------------------------------

MaxTurns == 1

\* the clock reading of the first recorded turn of an earlier conversation
EarlierTime == 100

EarlierQueries == <<"hello", "what is the tide", "explain tides">>

EarlierReply(q) ==
    LET local == processLocalQuery(q, <<>>)
    IN  IF local.needsCloudFallback THEN HintedReply(local) ELSE local.response

\* the message list after k turns answered locally, ten clock units apart
RECURSIVE Conversation(_)
Conversation(k) ==
    IF k = 0 THEN InitialMessages(EarlierTime)
    ELSE LET t == EarlierTime + 10 * k
             q == EarlierQueries[((k - 1) % Len(EarlierQueries)) + 1]
         IN  Conversation(k - 1)
                 \o <<Message(ToString(t), "user", q, t, "local", FALSE),
                      Message(ToString(t + 1), "assistant", EarlierReply(q), t, "local", FALSE)>>

\* how many turns the conversation already holds when the model starts
EarlierTurns == {0, 3}

\* what the user types
ChatInputs ==
    {"show my data", "  Hi  ", "sentiment: good day", "important words here", "help",
     "explain this", "Explain gravity", "explain data", LongWord, "ok", "   "}

\* clock units since the clock was last read: none, one, more
ClockAdvance == {0, 1, 2}

\* handleSubmit without the test of isProcessing
SubmitWithin_WhileProcessing(limit, input, advance) ==
    /\ call.seq < limit
    /\ ~(Trim(input) = "")
    /\ LET userMessage == Trim(input)
           time        == now + advance
           userMsg     == Message(ToString(time), "user", userMessage, time, "local", FALSE)
           loadingMsg  == Message(ToString(time + 1), "assistant", "", time, "local", TRUE)
           msgs        == messages \o <<userMsg, loadingMsg>>
           t           == [userMessage |-> userMessage, history |-> HistoryOf(messages),
                           loadingId |-> loadingMsg.id, local |-> NoLocal]
           c           == [NoCall EXCEPT !.op = "processMessage", !.arg = userMessage,
                                         !.seq = call.seq + 1, !.netBefore = Len(net),
                                         !.toastsBefore = Len(toasts),
                                         !.wasEnabled = isEnabled,
                                         !.key = apiKey]
       IN  /\ now' = time
           /\ IF WantsDatasets(userMessage) /\ db # "null"
              THEN /\ messages' = msgs
                   /\ isProcessing' = TRUE
                   /\ pc' = "getDatasets"
                   /\ turn' = t
                   /\ call' = c
                   /\ net' = net
              ELSE AfterLocal(msgs, t, processLocalQuery(userMessage, getDatasets), c)
    /\ UNCHANGED <<panel, cloudVars, storeVars, uploadVars, toasts, ret>>

\* handleSubmit, and processMessage to its first await on storage or network,
\* for the first `limit` submissions
SubmitWithin(limit, input, advance) ==
    /\ call.seq < limit
    /\ ~(isProcessing \/ Trim(input) = "")
    /\ LET userMessage == Trim(input)
           time        == now + advance
           userMsg     == Message(ToString(time), "user", userMessage, time, "local", FALSE)
           loadingMsg  == Message(ToString(time + 1), "assistant", "", time, "local", TRUE)
           msgs        == messages \o <<userMsg, loadingMsg>>
           t           == [userMessage |-> userMessage, history |-> HistoryOf(messages),
                           loadingId |-> loadingMsg.id, local |-> NoLocal]
           c           == [NoCall EXCEPT !.op = "processMessage", !.arg = userMessage,
                                         !.seq = call.seq + 1, !.netBefore = Len(net),
                                         !.toastsBefore = Len(toasts),
                                         !.wasEnabled = isEnabled,
                                         !.key = apiKey]
       IN  /\ now' = time
           /\ IF WantsDatasets(userMessage) /\ db # "null"
              THEN /\ messages' = msgs
                   /\ isProcessing' = TRUE
                   /\ pc' = "getDatasets"
                   /\ turn' = t
                   /\ call' = c
                   /\ net' = net
              ELSE AfterLocal(msgs, t, processLocalQuery(userMessage, getDatasets), c)
    /\ UNCHANGED <<panel, cloudVars, storeVars, uploadVars, toasts, ret>>

Submit(input, advance) == SubmitWithin(MaxTurns, input, advance)

\* `await localBackend.getDatasets()` settles
DatasetsSettle(fails) ==
    /\ pc = "getDatasets"
    /\ IF fails
       THEN /\ FinishWithError(messages, turn.loadingId)
            /\ UNCHANGED <<net, call>>
       ELSE /\ AfterLocal(messages, turn, DatasetsAnswer(datasets), call)
            /\ UNCHANGED toasts
    /\ UNCHANGED <<panel, cloudVars, storeVars, uploadVars, now, ret>>

\* the failure of chatWithGPT left to the outer catch
CloudFailed_Propagates == FinishWithError(messages, turn.loadingId)

\* line 157: the catch around chatWithGPT
CloudFailed ==
    /\ Finish(messages, turn.loadingId, HintedReply(turn.local), "local")
    /\ UNCHANGED toasts

\* `await fetch(...)` of the chat's request settles
ChatFetchSettles(outcome) ==
    /\ pc = "fetch"
    /\ call.op = "processMessage"
    /\ IF AfterFetch(outcome).done
       THEN /\ CloudFailed
            /\ call' = [call EXCEPT !.cloud = "failed"]
       ELSE /\ pc' = "json"
            /\ UNCHANGED <<messages, isProcessing, turn, toasts, call>>
    /\ UNCHANGED <<panel, cloudVars, storeVars, uploadVars, now, net, ret>>

\* `await response.json()` of the chat's request settles
ChatJsonSettles(body) ==
    /\ pc = "json"
    /\ call.op = "processMessage"
    /\ IF ReadCompletion(body).threw
       THEN /\ CloudFailed
            /\ call' = [call EXCEPT !.cloud = "failed"]
       ELSE /\ Finish(messages, turn.loadingId, ReadCompletion(body).value, "cloud")
            /\ call' = [call EXCEPT !.cloud = "succeeded"]
            /\ UNCHANGED toasts
    /\ UNCHANGED <<panel, cloudVars, storeVars, uploadVars, now, net, ret>>

Init ==
    /\ panel = NoPanel
    /\ apiKey = JSNull /\ isEnabled = FALSE
    /\ db \in {"null", "open"}
    /\ datasets \in (IF db = "null" THEN {<<>>} ELSE {<<>>, <<SampleDataset(11), SampleDataset(12)>>})
    /\ pyodide = "null" /\ isInitialized = (db = "open")
    /\ initCall = (IF db = "open" THEN InitializedWithout ELSE NoInit)
    /\ conversations = <<>> /\ settings = <<>>
    /\ listed = <<>> /\ isUploading = FALSE /\ analysisResult = JSNull
    /\ \E k \in EarlierTurns :
           /\ messages = Conversation(k)
           /\ now = EarlierTime + 10 * k
    /\ isProcessing = FALSE /\ pc = "idle" /\ turn = NoTurn
    /\ toasts = <<>> /\ net = <<>>
    /\ call = NoCall /\ ret = NoRet

Next ==
    \/ \E input \in ChatInputs, advance \in ClockAdvance : Submit(input, advance)
    \/ \E fails \in BOOLEAN : DatasetsSettle(fails)
    \/ \E outcome \in FetchOutcomes : ChatFetchSettles(outcome)
    \/ \E body \in Bodies : ChatJsonSettles(body)
    \/ \E k \in ApiKeys : setApiKey(k)
    \/ \E b \in BOOLEAN : setEnabled(b)

Spec == Init /\ [][Next]_vars

\* ------------------------------------------------------------------------
\* SpecStore: the exported store, driven through its public methods
\* ------------------------------------------------------------------------

MaxOps == 2

SettingKeys   == {"cloudEnabled", "gptApiKey"}
SettingValues == {JSBool(TRUE), JSBool(FALSE), JSNum(0), JSNum(1), JSStr(""), JSStr("sk-test")}

SampleData == {JSArr(<<>>), JSObj(<<Property("a", JSNum(1))>>)}

SampleConversation(id) == [id |-> id, messages |-> <<>>, created |-> EarlierTime]
SampleConversations == {SampleConversation("c1"), SampleConversation("c2")}

\* the collections as they are on disk
Stored == <<datasets, conversations, settings>>

\* the record of a call on the store that is made now
StoreCall(op, arg, value) ==
    [NoCall EXCEPT !.op = op, !.arg = arg, !.value = value, !.seq = call.seq + 1,
                   !.dbBefore = db, !.storedBefore = Stored,
                   !.prev = [op |-> call.op, arg |-> call.arg, value |-> call.value,
                             dbBefore |-> call.dbBefore,
                             returned |-> ret.done /\ ~ret.threw]]

\* lines 42-43: initialize is called on a store that is not initialized
initialize ==
    /\ pc = "idle"
    /\ ~isInitialized
    /\ pc' = "openDB"
    /\ initCall' = NoInit
    /\ UNCHANGED <<panel, cloudVars, db, pyodide, isInitialized, datasets, conversations,
                   settings, uploadVars, messages, isProcessing, turn, now, toasts, net,
                   call, ret>>

\* lines 46-58: openDB settles; a rejection leaves initialize with db = null
OpenDBSettles(ok) ==
    /\ pc = "openDB"
    /\ db' = IF ok THEN "open" ELSE db
    /\ pc' = IF ok THEN "loadPyodide" ELSE "idle"
    /\ initCall' = IF ok THEN initCall ELSE [initCall EXCEPT !.ret = Threw(DatabaseError)]
    /\ UNCHANGED <<panel, cloudVars, pyodide, isInitialized, datasets, conversations, settings,
                   uploadVars, messages, isProcessing, turn, now, toasts, net, call, ret>>

\* lines 61-65 and 71-75: the import and loadPyodide settle; a rejection is
\* caught and logged
LoadPyodideSettles(ok) ==
    /\ pc = "loadPyodide"
    /\ pyodide' = IF ok THEN "loaded" ELSE pyodide
    /\ isInitialized' = IF ok THEN isInitialized ELSE TRUE
    /\ pc' = IF ok THEN "loadPackage" ELSE "idle"
    /\ initCall' = IF ok THEN initCall ELSE InitializedWithout
    /\ UNCHANGED <<panel, cloudVars, db, datasets, conversations, settings, uploadVars,
                   messages, isProcessing, turn, now, toasts, net, call, ret>>

\* lines 68-75: loadPackage settles; its rejection is caught as well, and
\* leaves the interpreter without pandas
LoadPackageSettles(ok) ==
    /\ pc = "loadPackage"
    /\ pyodide' = IF ok THEN "ready" ELSE pyodide
    /\ isInitialized' = TRUE
    /\ pc' = "idle"
    /\ initCall' = IF ok THEN [interpreter |-> "loaded", ret |-> Gave(JSUndefined)]
                   ELSE InitializedWithout
    /\ UNCHANGED <<panel, cloudVars, db, datasets, conversations, settings, uploadVars,
                   messages, isProcessing, turn, now, toasts, net, call, ret>>

\* `await saveDataset(name, data)`, called `advance` ms after the last call
saveDataset(name, data, advance, fails) ==
    /\ call.seq < MaxOps
    /\ now' = now + advance
    /\ call' = StoreCall("saveDataset", name, data)
    /\ LET dataset == NewDataset(name, data, now')
       IN  IF db = "null"
           THEN ret' = Threw(NotInitialized) /\ datasets' = datasets
           ELSE IF HasKey(datasets, dataset.id)
           THEN ret' = Threw(ConstraintError) /\ datasets' = datasets
           ELSE IF fails
           THEN ret' = Threw(DatabaseError) /\ datasets' = datasets
           ELSE ret' = Gave(JSStr(dataset.id)) /\ datasets' = InsertByKey(datasets, dataset)
    /\ UNCHANGED <<panel, cloudVars, db, pyodide, isInitialized, initCall, conversations, settings,
                   uploadVars, messages, isProcessing, pc, turn, toasts, net>>

\* `await getDatasets()`
CallGetDatasets(fails) ==
    /\ call.seq < MaxOps
    /\ call' = StoreCall("getDatasets", "", JSNull)
    /\ ret' = IF db # "null" /\ fails THEN Threw(DatabaseError) ELSE Gave(getDatasets)
    /\ UNCHANGED <<panel, cloudVars, storeVars, uploadVars, chatVars, net>>

\* `await saveConversation(conversation)`
saveConversation(conversation, fails) ==
    /\ call.seq < MaxOps
    /\ call' = StoreCall("saveConversation", conversation.id, JSNull)
    /\ IF db = "null"
       THEN ret' = Gave(JSUndefined) /\ conversations' = conversations
       ELSE IF fails
       THEN ret' = Threw(DatabaseError) /\ conversations' = conversations
       ELSE ret' = Gave(JSUndefined) /\ conversations' = Put(conversations, conversation)
    /\ UNCHANGED <<panel, cloudVars, db, pyodide, isInitialized, initCall, datasets, settings,
                   uploadVars, chatVars, net>>

\* `await getConversations()`
CallGetConversations(fails) ==
    /\ call.seq < MaxOps
    /\ call' = StoreCall("getConversations", "", JSNull)
    /\ ret' = IF db # "null" /\ fails THEN Threw(DatabaseError) ELSE Gave(getConversations)
    /\ UNCHANGED <<panel, cloudVars, storeVars, uploadVars, chatVars, net>>

\* `await setSetting(key, value)`
setSetting(key, value, fails) ==
    /\ call.seq < MaxOps
    /\ call' = StoreCall("setSetting", key, value)
    /\ IF db = "null"
       THEN ret' = Gave(JSUndefined) /\ settings' = settings
       ELSE IF fails
       THEN ret' = Threw(DatabaseError) /\ settings' = settings
       ELSE ret' = Gave(JSUndefined) /\ settings' = Put(settings, Property(key, value))
    /\ UNCHANGED <<panel, cloudVars, db, pyodide, isInitialized, initCall, datasets, conversations,
                   uploadVars, chatVars, net>>

\* `await getSetting(key)`
CallGetSetting(key, fails) ==
    /\ call.seq < MaxOps
    /\ call' = StoreCall("getSetting", key, JSNull)
    /\ ret' = IF db # "null" /\ fails THEN Threw(DatabaseError) ELSE Gave(getSetting(key))
    /\ UNCHANGED <<panel, cloudVars, storeVars, uploadVars, chatVars, net>>

\* the database on disk may hold what an earlier session saved
InitStore ==
    /\ panel = NoPanel
    /\ apiKey = JSNull /\ isEnabled = FALSE
    /\ db = "null" /\ pyodide = "null" /\ isInitialized = FALSE
    /\ initCall = NoInit
    /\ datasets \in {<<>>, <<SampleDataset(EarlierTime)>>}
    /\ conversations = <<>>
    /\ settings \in {<<>>, <<Property("cloudEnabled", JSBool(TRUE))>>}
    /\ listed = <<>> /\ isUploading = FALSE /\ analysisResult = JSNull
    /\ messages = <<>> /\ isProcessing = FALSE /\ pc = "idle" /\ turn = <<>>
    /\ now = EarlierTime /\ toasts = <<>> /\ net = <<>>
    /\ call = NoCall /\ ret = NoRet

NextStore ==
    \/ initialize
    \/ \E ok \in BOOLEAN : OpenDBSettles(ok)
    \/ \E ok \in BOOLEAN : LoadPyodideSettles(ok)
    \/ \E ok \in BOOLEAN : LoadPackageSettles(ok)
    \/ \E data \in SampleData, advance \in ClockAdvance, fails \in BOOLEAN :
           saveDataset("rows.json", data, advance, fails)
    \/ \E fails \in BOOLEAN : CallGetDatasets(fails)
    \/ \E c \in SampleConversations, fails \in BOOLEAN : saveConversation(c, fails)
    \/ \E fails \in BOOLEAN : CallGetConversations(fails)
    \/ \E k \in SettingKeys, v \in SettingValues, fails \in BOOLEAN : setSetting(k, v, fails)
    \/ \E k \in SettingKeys, fails \in BOOLEAN : CallGetSetting(k, fails)

SpecStore == InitStore /\ [][NextStore]_vars

\* ------------------------------------------------------------------------
\* SpecUpload: the data view importing files into the store
\* ------------------------------------------------------------------------

MaxUploads == 2

File(name, text) == [name |-> name, text |-> text]

TableText == "a,b\n1,x\n2,y"

UploadFiles ==
    {File("rows.json", "[]"), File("rows.json", "[{\"a\":1}]"), File("rows.json", "{oops"),
     File("rows.json", ""), File("rows.json", TableText), File("table.csv", TableText),
     File("table.csv", ""), File("table.csv", "n, \"m\" \n-7,\n"), File("notes.txt", TableText),
     File("DATA.JSON", "[]"), File("TABLE.CSV", TableText), File("json", "[]"),
     File("rows.json.bak", "[]"), File("csv.xls", TableText)}

\* lines 27-39: the load on mount settles (a failure is only logged)
MountLoadSettles(fails) ==
    /\ pc = "mount"
    /\ listed' = IF db # "null" /\ fails THEN listed ELSE getDatasets
    /\ pc' = "idle"
    /\ UNCHANGED <<panel, cloudVars, storeVars, isUploading, analysisResult, messages,
                   isProcessing, turn, now, toasts, net, call, ret>>

\* lines 41-48: a file is chosen; the handler runs up to `await file.text()`
handleFileUpload(file) ==
    /\ call.seq < MaxUploads
    /\ pc = "idle"
    /\ ~isUploading
    /\ isUploading' = TRUE
    /\ pc' = "text"
    /\ turn' = [NoUpload EXCEPT !.name = file.name, !.text = file.text]
    /\ call' = [NoCall EXCEPT !.op = "handleFileUpload", !.arg = file.name,
                              !.value = JSStr(file.text), !.seq = call.seq + 1,
                              !.toastsBefore = Len(toasts), !.dbBefore = db,
                              !.storedBefore = Stored]
    /\ UNCHANGED <<panel, cloudVars, storeVars, listed, analysisResult, messages, isProcessing,
                   now, toasts, net, ret>>

\* lines 73-81: catch and finally
UploadFails(message) ==
    /\ toasts' = Append(toasts, Toast("Upload failed", message))
    /\ isUploading' = FALSE
    /\ pc' = "idle"
    /\ turn' = NoUpload

\* lines 48-59 and 207-219: the text is read and parsed, saveDataset is called
\* `advance` ms later and runs up to `await db.add`
TextSettles(ok, advance) ==
    /\ pc = "text"
    /\ LET data == ParseUpload(turn.name, turn.text)
       IN  IF ~ok
           THEN UploadFails(ReadError) /\ call' = [call EXCEPT !.settled = TRUE]
                /\ now' = now
           ELSE IF data.threw
           THEN UploadFails(data.error) /\ call' = [call EXCEPT !.settled = TRUE]
                /\ now' = now
           ELSE IF db = "null"
           THEN /\ UploadFails(NotInitialized)
                /\ call' = [call EXCEPT !.settled = TRUE, !.saveCalls = @ + 1]
                /\ now' = now + advance
           ELSE /\ now' = now + advance
                /\ turn' = [turn EXCEPT !.dataset = NewDataset(turn.name, data.value, now')]
                /\ pc' = "add"
                /\ call' = [call EXCEPT !.saveCalls = @ + 1]
                /\ UNCHANGED <<toasts, isUploading>>
    /\ UNCHANGED <<panel, cloudVars, storeVars, listed, analysisResult, messages, isProcessing,
                   net, ret>>

\* lines 219-220 and 59-66: db.add settles; on success the toast is shown and
\* loadDatasets runs up to `await getDatasets()`
AddSettles(fails) ==
    /\ pc = "add"
    /\ IF HasKey(datasets, turn.dataset.id)
       THEN /\ UploadFails(ConstraintError) /\ call' = [call EXCEPT !.settled = TRUE]
            /\ datasets' = datasets
       ELSE IF fails
       THEN /\ UploadFails(DatabaseError) /\ call' = [call EXCEPT !.settled = TRUE]
            /\ datasets' = datasets
       ELSE /\ datasets' = InsertByKey(datasets, turn.dataset)
            /\ toasts' = Append(toasts, Toast("Dataset uploaded",
                                              turn.name \o " has been saved locally."))
            /\ pc' = "load"
            /\ UNCHANGED <<isUploading, turn, call>>
    /\ UNCHANGED <<panel, cloudVars, db, pyodide, isInitialized, initCall, conversations, settings, listed,
                   analysisResult, messages, isProcessing, now, net, ret>>

\* lines 27-34 and 66-81: the reload settles and the handler ends
LoadSettles(fails) ==
    /\ pc = "load"
    /\ listed' = IF fails THEN listed ELSE datasets
    /\ isUploading' = FALSE
    /\ pc' = "idle"
    /\ turn' = NoUpload
    /\ call' = [call EXCEPT !.settled = TRUE]
    /\ UNCHANGED <<panel, cloudVars, storeVars, analysisResult, messages, isProcessing, now,
                   toasts, net, ret>>

InitUpload ==
    /\ panel = NoPanel
    /\ apiKey = JSNull /\ isEnabled = FALSE
    /\ db \in {"null", "open"}
    /\ pyodide = "null" /\ isInitialized = (db = "open")
    /\ initCall = (IF db = "open" THEN InitializedWithout ELSE NoInit)
    /\ datasets \in (IF db = "null" THEN {<<>>} ELSE {<<>>, <<SampleDataset(EarlierTime)>>})
    /\ conversations = <<>> /\ settings = <<>>
    /\ listed = <<>> /\ isUploading = FALSE /\ analysisResult = JSNull
    /\ messages = <<>> /\ isProcessing = FALSE /\ pc = "mount" /\ turn = NoUpload
    /\ now = EarlierTime /\ toasts = <<>> /\ net = <<>>
    /\ call = NoCall /\ ret = NoRet

NextUpload ==
    \/ \E fails \in BOOLEAN : MountLoadSettles(fails)
    \/ \E file \in UploadFiles : handleFileUpload(file)
    \/ \E ok \in BOOLEAN, advance \in ClockAdvance : TextSettles(ok, advance)
    \/ \E fails \in BOOLEAN : AddSettles(fails)
    \/ \E fails \in BOOLEAN : LoadSettles(fails)

SpecUpload == InitUpload /\ [][NextUpload]_vars

\* ------------------------------------------------------------------------
\* SpecData: the data view with its Analyze and Delete buttons
\* ------------------------------------------------------------------------

MaxToasts == 2

DataFiles ==
    {File("rows.json", "null"), File("table.csv", TableText), File("notes.txt", TableText)}

\* {...result}: the own enumerable properties of the result (a converted
\* Python dict is a Map, which has none)
Spread(result) == IF result.t = "obj" THEN result.entries ELSE <<>>

\* lines 104-125: the Analyze button of a listed dataset. No storage or
\* network request is awaited, so the handler runs to its end before any other
\* event; isProcessing is set and cleared within it.
analyzeDataset(dataset, pythonThrows) ==
    /\ Len(toasts) < MaxToasts
    /\ LET result == processDataLocally(dataset.data, "summary", pythonThrows)
       IN  IF result.threw
           THEN /\ analysisResult' = JSNull
                /\ toasts' = Append(toasts, Toast("Analysis failed", result.error))
           ELSE /\ analysisResult' =
                       JSObj(SetProperty(Spread(result.value), "datasetName",
                                         JSStr(dataset.name)))
                /\ toasts' = Append(toasts, Toast("Analysis complete",
                                                  "Dataset analysis finished locally."))
    /\ UNCHANGED <<panel, cloudVars, storeVars, listed, isUploading, messages, isProcessing, pc,
                   turn, now, net, call, ret>>

\* the Delete button with the deletion carried out
deleteDataset_Removes(id) ==
    /\ Len(toasts) < MaxToasts
    /\ toasts' = Append(toasts, Toast("Delete dataset",
                                      "Dataset deletion would be implemented here."))
    /\ datasets' = Without(datasets, id)
    /\ UNCHANGED <<panel, cloudVars, db, pyodide, isInitialized, initCall, conversations, settings,
                   uploadVars, messages, isProcessing, pc, turn, now, net, call, ret>>

\* lines 127-133: the Delete button of a listed dataset
deleteDataset(id) ==
    /\ Len(toasts) < MaxToasts
    /\ toasts' = Append(toasts, Toast("Delete dataset",
                                      "Dataset deletion would be implemented here."))
    /\ UNCHANGED <<panel, cloudVars, storeVars, uploadVars, messages, isProcessing, pc, turn, now,
                   net, call, ret>>

InitData ==
    /\ panel = NoPanel
    /\ apiKey = JSNull /\ isEnabled = FALSE
    /\ db = "open" /\ isInitialized = TRUE
    /\ \/ pyodide = "null" /\ initCall = InitializedWithout
       \/ pyodide = "ready" /\ initCall = [interpreter |-> "loaded", ret |-> Gave(JSUndefined)]
    /\ datasets \in {<<>>, <<SampleDataset(EarlierTime)>>}
    /\ conversations = <<>> /\ settings = <<>>
    /\ listed = <<>> /\ isUploading = FALSE /\ analysisResult = JSNull
    /\ messages = <<>> /\ isProcessing = FALSE /\ pc = "mount" /\ turn = NoUpload
    /\ now = EarlierTime /\ toasts = <<>> /\ net = <<>>
    /\ call = NoCall /\ ret = NoRet

NextData ==
    \/ \E fails \in BOOLEAN : MountLoadSettles(fails)
    \/ \E file \in DataFiles : handleFileUpload(file)
    \/ \E ok \in BOOLEAN, advance \in ClockAdvance : TextSettles(ok, advance)
    \/ \E fails \in BOOLEAN : AddSettles(fails)
    \/ \E fails \in BOOLEAN : LoadSettles(fails)
    \/ \E i \in 1..Len(listed), pythonThrows \in BOOLEAN : analyzeDataset(listed[i], pythonThrows)
    \/ \E i \in 1..Len(listed) : deleteDataset(listed[i].id)

SpecData == InitData /\ [][NextData]_vars

\* ------------------------------------------------------------------------
\* SpecMessages: the update of the message list, applied to lists of messages
\* ------------------------------------------------------------------------

MaxUpdates == 2

Update(id, content, processingType) ==
    [id |-> id, content |-> content, processingType |-> processingType]

\* setMessages(prev => prev.map(...)) for one update
Resolve(msgs, u) == ResolveLoading(msgs, u.id, u.content, u.processingType)

SampleUpdates ==
    {Update(id, content, origin) :
        id \in {"102", "103", "104"}, content \in {"Hello!", ErrorReply},
        origin \in {"local", "cloud"}}

\* lists with two placeholders, with one, and with an id held by two entries
SampleMessages ==
    {InitialMessages(EarlierTime)
         \o <<Message("101", "user", "hello", 101, "local", FALSE),
              Message("102", "assistant", "", 101, "local", TRUE),
              Message("103", "user", "help", 103, "local", FALSE),
              Message("104", "assistant", "", 103, "local", TRUE)>>,
     InitialMessages(EarlierTime)
         \o <<Message("101", "user", "hello", 101, "local", FALSE),
              Message("102", "assistant", "Hi there", 101, "local", FALSE),
              Message("102", "user", "help", 102, "local", FALSE),
              Message("103", "assistant", "", 102, "local", TRUE)>>,
     Conversation(1)}

\* one update is delivered to the list
Deliver(u) ==
    /\ call.seq < MaxUpdates
    /\ messages' = Resolve(messages, u)
    /\ call' = [NoCall EXCEPT !.op = "setMessages", !.arg = u.id, !.seq = call.seq + 1,
                              !.prev = [NoPrev EXCEPT !.op = call.op, !.arg = call.arg]]
    /\ UNCHANGED <<panel, cloudVars, storeVars, uploadVars, isProcessing, pc, turn, now, toasts,
                   net, ret>>

InitMessages ==
    /\ panel = NoPanel
    /\ apiKey = JSNull /\ isEnabled = FALSE
    /\ db = "null" /\ pyodide = "null" /\ isInitialized = FALSE
    /\ initCall = NoInit
    /\ datasets = <<>> /\ conversations = <<>> /\ settings = <<>>
    /\ listed = <<>> /\ isUploading = FALSE /\ analysisResult = JSNull
    /\ messages \in SampleMessages
    /\ isProcessing = FALSE /\ pc = "idle" /\ turn = NoTurn
    /\ now = EarlierTime /\ toasts = <<>> /\ net = <<>>
    /\ call = NoCall /\ ret = NoRet

NextMessages == \E u \in SampleUpdates : Deliver(u)

SpecMessages == InitMessages /\ [][NextMessages]_vars

\* ------------------------------------------------------------------------
\* SpecAnalyzer: initialize and the data operations of the store
\* ------------------------------------------------------------------------

MaxAnalyses == 2

Row(a, b) == JSObj(<<Property("a", JSNum(a)), Property("b", JSStr(b))>>)

\* lists of row records (none, one, more than the sample holds, one with an
\* absent row), a single record, an absent record
AnalysisInputs ==
    {JSArr(<<>>),
     JSArr(<<Row(1, "x")>>),
     JSArr(<<Row(1, "x"), Row(2, "y"), Row(3, "z"), Row(4, "u"), Row(5, "v"), Row(6, "w")>>),
     JSArr(<<JSObj(<<>>), Row(2, "y")>>),
     JSArr(<<Row(1, "x"), JSNull>>),
     Row(7, "single"),
     JSNull,
     JSUndefined}

Operations == {"summary", "stats", "count"}

\* `await processDataLocally(data, operation)`
CallProcessDataLocally(data, operation, pythonThrows) ==
    /\ call.seq < MaxAnalyses
    /\ call' = [NoCall EXCEPT !.op = "processDataLocally", !.arg = operation,
                              !.value = data, !.seq = call.seq + 1,
                              !.interpreter = pyodide, !.pythonThrows = pythonThrows]
    /\ ret' = processDataLocally(data, operation, pythonThrows)
    /\ UNCHANGED <<panel, cloudVars, storeVars, uploadVars, chatVars, net>>

NextAnalyzer ==
    \/ initialize
    \/ \E ok \in BOOLEAN : OpenDBSettles(ok)
    \/ \E ok \in BOOLEAN : LoadPyodideSettles(ok)
    \/ \E ok \in BOOLEAN : LoadPackageSettles(ok)
    \/ \E data \in AnalysisInputs, operation \in Operations, pythonThrows \in BOOLEAN :
           CallProcessDataLocally(data, operation, pythonThrows)

SpecAnalyzer == InitStore /\ [][NextAnalyzer]_vars

\* ------------------------------------------------------------------------
\* SpecText: the text operations of the local analyzer on phrases and passages
\* ------------------------------------------------------------------------

MaxWords == 3
MaxSentences == 11

\* tokens of a phrase: sentiment words in both cases, a short word, a word
\* with punctuation attached, all-digit tokens
Vocabulary == <<"good", "Great", "bad", "Hate", "good,", "2024", "1000", "the", "data">>

\* what is left of a token after case folding and punctuation stripping, for
\* the tokens that are longer than 3 characters then
Folded ==
    [w \in {"good", "Great", "Hate", "good,", "2024", "1000", "data"} |->
        CASE w = "Great" -> "great"
          [] w = "Hate"  -> "hate"
          [] w = "good," -> "good"
          [] OTHER       -> w]

Qualifies(w) == w \in DOMAIN Folded

PhraseSeparators == {" ", " \n"}

\* a text input with what it was built from: its white-space tokens, its
\* qualifying tokens (folded, stripped) and its non-blank sentence fragments
TextInput(text, tokens, qualifying, sentences) ==
    [text |-> text, tokens |-> tokens, qualifying |-> qualifying, sentences |-> sentences]

Phrase(words, sep) ==
    LET long == SelectSeq(words, Qualifies)
    IN  TextInput(Join(words, sep), words,
                  [i \in 1..Len(long) |-> Folded[long[i]]],
                  IF words = <<>> THEN <<>> ELSE <<Join(words, sep)>>)

\* the phrases of at most maxWords tokens
Phrases(maxWords) ==
    UNION {{Phrase([i \in 1..n |-> Vocabulary[f[i]]], sep) :
                f \in [1..n -> 1..Len(Vocabulary)], sep \in PhraseSeparators} :
           n \in 0..maxWords}

SentenceWords ==
    <<"Alpha", "Bravo", "Charlie", "Delta", "Foxtrot", "Hotel", "India", "Juliett",
      "Kilo", "Lima", "Mike", "November", "Oscar">>

SentenceWord(i) == SentenceWords[((i - 1) % Len(SentenceWords)) + 1]

Terminators == {".", "!", "?!"}
\* what a passage starts with: nothing, or terminators with a blank between
Leads == {"", "! . "}

\* n one-word sentences, each but (when open) the last closed by a terminator
Passage(n, term, lead, open) ==
    LET closed   == [i \in 1..n |-> SentenceWord(i) \o (IF open /\ i = n THEN "" ELSE term)]
        leading  == IF lead = "" THEN <<>> ELSE <<"!", ".">>
    IN  TextInput(lead \o Join(closed, " "),
                  leading \o closed,
                  [i \in 1..n |-> toLowerCase(SentenceWord(i))],
                  [i \in 1..n |-> (IF i = 1 /\ lead = "" THEN "" ELSE " ") \o SentenceWord(i)])

\* the passages of at most maxSentences sentences
Passages(maxSentences) ==
    {Passage(n, term, lead, open) :
        n \in 0..maxSentences, term \in Terminators, lead \in Leads, open \in BOOLEAN}

TextOperations == {"sentiment", "keywords", "summary", "echo"}

InitText ==
    /\ panel = NoPanel
    /\ apiKey = JSNull /\ isEnabled = FALSE
    /\ db = "null" /\ pyodide = "null" /\ isInitialized = FALSE
    /\ initCall = NoInit
    /\ datasets = <<>> /\ conversations = <<>> /\ settings = <<>>
    /\ listed = <<>> /\ isUploading = FALSE /\ analysisResult = JSNull
    /\ messages = <<>> /\ isProcessing = FALSE /\ pc = "idle" /\ turn = <<>>
    /\ now = EarlierTime /\ toasts = <<>> /\ net = <<>>
    /\ ret = NoRet
    /\ \E input \in Phrases(MaxWords) \cup Passages(MaxSentences), operation \in TextOperations :
           call = [NoCall EXCEPT !.op = "processTextLocally", !.arg = operation,
                                 !.value = JSStr(input.text), !.tokens = input.tokens,
                                 !.qualifying = input.qualifying,
                                 !.sentences = input.sentences]

\* `await processTextLocally(text, operation)`
CallProcessTextLocally ==
    /\ call.op = "processTextLocally"
    /\ ~ret.done
    /\ ret' = Gave(processTextLocally(call.value.s, call.arg))
    /\ UNCHANGED <<panel, cloudVars, storeVars, uploadVars, chatVars, net, call>>

NextText == CallProcessTextLocally

SpecText == InitText /\ [][NextText]_vars

\* ------------------------------------------------------------------------
\* SpecCsv: parseCSV on tables of two columns
\* ------------------------------------------------------------------------

MaxRows == 2

\* the texts of a cell: numbers, words, a number followed by letters, a quoted
\* word between blanks
CellTexts == <<"1", "2", "x", "y", "12abc", " \"q\" ">>

HeaderLine == "a,b"

\* the text of a table: the header line and one line per row of cell texts
Table(rows) ==
    Join(<<HeaderLine>> \o [i \in 1..Len(rows) |-> Join(rows[i], ",")], "\n")

\* the tables of at most maxRows rows
Tables(maxRows) ==
    UNION {{[i \in 1..n |-> <<CellTexts[f[i][1]], CellTexts[f[i][2]]>>] :
                f \in [1..n -> (1..Len(CellTexts)) \X (1..Len(CellTexts))]} :
           n \in 0..maxRows}

InitCsv ==
    /\ panel = NoPanel
    /\ apiKey = JSNull /\ isEnabled = FALSE
    /\ db = "null" /\ pyodide = "null" /\ isInitialized = FALSE
    /\ initCall = NoInit
    /\ datasets = <<>> /\ conversations = <<>> /\ settings = <<>>
    /\ listed = <<>> /\ isUploading = FALSE /\ analysisResult = JSNull
    /\ messages = <<>> /\ isProcessing = FALSE /\ pc = "idle" /\ turn = <<>>
    /\ now = EarlierTime /\ toasts = <<>> /\ net = <<>>
    /\ ret = NoRet
    /\ \E rows \in Tables(MaxRows) :
           call = [NoCall EXCEPT !.op = "parseCSV", !.value = JSStr(Table(rows)),
                                 !.cells = rows]

\* `data = parseCSV(text)`
CallParseCSV ==
    /\ call.op = "parseCSV"
    /\ ~ret.done
    /\ ret' = Gave(parseCSV(call.value.s))
    /\ UNCHANGED <<panel, cloudVars, storeVars, uploadVars, chatVars, net, call>>

NextCsv == CallParseCSV

SpecCsv == InitCsv /\ [][NextCsv]_vars

\* ------------------------------------------------------------------------
\* SpecTurns: consecutive turns of one chat view
\* ------------------------------------------------------------------------

MaxSubmits == 2

\* what the user types: a dataset question, a canned answer, a query for the
\* cloud, blanks
TurnInputs == {"show my data", "help", "Explain gravity", "   "}

\* a freshly mounted chat view; the cloud client as the settings left it
InitTurns ==
    /\ panel = NoPanel
    /\ apiKey \in {JSNull, JSStr("sk-test")} /\ isEnabled \in BOOLEAN
    /\ db = "open" /\ pyodide = "null" /\ isInitialized = TRUE
    /\ initCall = InitializedWithout
    /\ datasets = <<>> /\ conversations = <<>> /\ settings = <<>>
    /\ listed = <<>> /\ isUploading = FALSE /\ analysisResult = JSNull
    /\ messages = InitialMessages(EarlierTime) /\ now = EarlierTime
    /\ isProcessing = FALSE /\ pc = "idle" /\ turn = NoTurn
    /\ toasts = <<>> /\ net = <<>>
    /\ call = NoCall /\ ret = NoRet

NextTurns ==
    \/ \E input \in TurnInputs, advance \in ClockAdvance : SubmitWithin(MaxSubmits, input, advance)
    \/ \E fails \in BOOLEAN : DatasetsSettle(fails)
    \/ \E outcome \in FetchOutcomes : ChatFetchSettles(outcome)
    \/ \E body \in Bodies : ChatJsonSettles(body)

SpecTurns == InitTurns /\ [][NextTurns]_vars

\* the awaited storage or network call of the running turn settles
Settles ==
    \/ \E fails \in BOOLEAN : DatasetsSettle(fails)
    \/ \E outcome \in FetchOutcomes : ChatFetchSettles(outcome)
    \/ \E body \in Bodies : ChatJsonSettles(body)

\* every awaited call settles (no await is left pending forever)
FairTurns == SpecTurns /\ WF_vars(Settles)

\* ------------------------------------------------------------------------
\* SpecSettings: the settings panel over the store and the cloud client,
\* with the chat view beside it.  One asynchronous handler is under way at
\* a time; the switch and the key field stay usable while it waits.
\* ------------------------------------------------------------------------

MaxClicks == 2

\* what the user types into the key field
KeyInputs == {"", "sk-test", "sk-new"}

\* the settings an earlier session saved
SavedSettings(enabled, key) ==
    Put(Put(<<>>, Property("cloudEnabled", JSBool(enabled))),
        Property("gptApiKey", JSStr(key)))

TestMessage == "Test message - please respond with 'Connection successful'"

\* the record of a handler of the panel that starts
PanelCall(op) ==
    [NoCall EXCEPT !.op = op, !.seq = call.seq + 1, !.netBefore = Len(net),
                   !.toastsBefore = Len(toasts), !.wasEnabled = isEnabled,
                   !.key = apiKey]

\* the store 'settings' after setSetting(key, value) fulfilled
AfterSetSetting(key, value) ==
    IF db = "null" THEN settings ELSE Put(settings, Property(key, value))

\* the handler under way ends: `finally { setIsLoading(false) }`
PanelDone ==
    /\ panel' = [panel EXCEPT !.isLoading = FALSE]
    /\ pc' = "idle"
    /\ turn' = NoTurn

\* line 152: the switch
ToggleCloud ==
    /\ panel' = [panel EXCEPT !.cloudEnabled = ~panel.cloudEnabled]
    /\ UNCHANGED <<cloudVars, storeVars, uploadVars, chatVars, net, call, ret>>

\* line 167: the key field, rendered while the switch is on
EditKey(key) ==
    /\ panel.cloudEnabled
    /\ key # panel.apiKey
    /\ panel' = [panel EXCEPT !.apiKey = key]
    /\ UNCHANGED <<cloudVars, storeVars, uploadVars, chatVars, net, call, ret>>

\* loadSettings (called when the panel mounts), from its awaits on; `fails`:
\* one of the two reads rejects
LoadSettingsSettles(fails) ==
    /\ pc = "loadSettings"
    /\ pc' = "idle"
    /\ IF fails
       THEN UNCHANGED <<panel, cloudVars>>
       ELSE LET enabled == getSetting("cloudEnabled")
                key     == getSetting("gptApiKey")
            IN  /\ panel' = [panel EXCEPT !.cloudEnabled = Truthy(enabled),
                                          !.apiKey = JSOr(key, JSStr("")).s]
                /\ isEnabled' = Truthy(enabled)
                /\ apiKey' = IF Truthy(key) THEN key ELSE apiKey
    /\ UNCHANGED <<storeVars, uploadVars, messages, isProcessing, turn, now, toasts,
                   net, call, ret>>

\* saveSettings to its first await; the handler keeps the switch and the key
\* of the render it was created in
SaveSettings ==
    /\ pc = "idle"
    /\ call.seq < MaxClicks
    /\ ~panel.isLoading
    /\ panel' = [panel EXCEPT !.isLoading = TRUE]
    /\ turn' = [cloudEnabled |-> panel.cloudEnabled, apiKey |-> panel.apiKey]
    /\ pc' = "saveEnabled"
    /\ call' = PanelCall("saveSettings")
    /\ UNCHANGED <<cloudVars, storeVars, uploadVars, messages, isProcessing, now,
                   toasts, net, ret>>

\* lines 57-62: the catch of saveSettings
SaveFailed ==
    /\ PanelDone
    /\ toasts' = Append(toasts, Toast("Error", "Failed to save settings."))
    /\ UNCHANGED <<settings, cloudVars>>

\* `await localBackend.setSetting('cloudEnabled', cloudEnabled)` settles
SaveEnabledSettles(fails) ==
    /\ pc = "saveEnabled"
    /\ IF db # "null" /\ fails
       THEN SaveFailed
       ELSE /\ settings' = AfterSetSetting("cloudEnabled", JSBool(turn.cloudEnabled))
            /\ pc' = "saveKey"
            /\ UNCHANGED <<panel, turn, toasts, cloudVars>>
    /\ UNCHANGED <<db, pyodide, isInitialized, initCall, datasets, conversations,
                   uploadVars, messages, isProcessing, now, net, call, ret>>

\* `await localBackend.setSetting('gptApiKey', apiKey)` settles, and lines
\* 48-56 after it
SaveKeySettles(fails) ==
    /\ pc = "saveKey"
    /\ IF db # "null" /\ fails
       THEN SaveFailed
       ELSE /\ settings' = AfterSetSetting("gptApiKey", JSStr(turn.apiKey))
            /\ isEnabled' = turn.cloudEnabled
            /\ apiKey' = IF turn.apiKey # "" THEN JSStr(turn.apiKey) ELSE apiKey
            /\ toasts' = Append(toasts, Toast("Settings saved",
                                               "Your preferences have been saved locally."))
            /\ PanelDone
    /\ UNCHANGED <<db, pyodide, isInitialized, initCall, datasets, conversations,
                   uploadVars, messages, isProcessing, now, net, call, ret>>

\* clearApiKey to its await; its button is rendered while the switch is on
\* and the key field is not empty
ClearApiKey ==
    /\ pc = "idle"
    /\ call.seq < MaxClicks
    /\ panel.cloudEnabled /\ panel.apiKey # ""
    /\ panel' = [panel EXCEPT !.apiKey = ""]
    /\ pc' = "clearKey"
    /\ call' = PanelCall("clearApiKey")
    /\ UNCHANGED <<cloudVars, storeVars, uploadVars, messages, isProcessing, turn, now,
                   toasts, net, ret>>

\* `await localBackend.setSetting('gptApiKey', "")` settles, and lines 71-75;
\* a rejection is not caught and ends the handler
ClearKeySettles(fails) ==
    /\ pc = "clearKey"
    /\ pc' = "idle"
    /\ IF db # "null" /\ fails
       THEN UNCHANGED <<settings, apiKey, toasts>>
       ELSE /\ settings' = AfterSetSetting("gptApiKey", JSStr(""))
            /\ apiKey' = JSStr("")
            /\ toasts' = Append(toasts, Toast("API key cleared",
                                               "Your API key has been removed."))
    /\ UNCHANGED <<panel, isEnabled, db, pyodide, isInitialized, initCall, datasets,
                   conversations, uploadVars, messages, isProcessing, turn, now, net,
                   call, ret>>

\* testConnection to the await of fetch inside chatWithGPT; its button is
\* rendered while the switch is on and the key field is not empty
TestConnection ==
    /\ pc = "idle"
    /\ call.seq < MaxClicks
    /\ ~panel.isLoading
    /\ panel.cloudEnabled /\ panel.apiKey # ""
    /\ panel' = [panel EXCEPT !.isLoading = TRUE]
    /\ apiKey' = JSStr(panel.apiKey)
    /\ isEnabled' = TRUE
    /\ net' = Append(net, [by |-> "chat", authorization |-> "Bearer " \o panel.apiKey,
                           messages |-> chatMessages(TestMessage, <<>>)])
    /\ pc' = "testFetch"
    /\ call' = PanelCall("testConnection")
    /\ UNCHANGED <<storeVars, uploadVars, messages, isProcessing, turn, now, toasts, ret>>

\* lines 99-104: the catch of testConnection
TestFailed(message) ==
    /\ PanelDone
    /\ toasts' = Append(toasts, Toast("Connection failed", message))

\* `await fetch(...)` of the test request settles
TestFetchSettles(outcome) ==
    /\ pc = "testFetch"
    /\ IF AfterFetch(outcome).done
       THEN TestFailed(AfterFetch(outcome).error)
       ELSE /\ pc' = "testJson"
            /\ UNCHANGED <<panel, turn, toasts>>
    /\ UNCHANGED <<cloudVars, storeVars, uploadVars, messages, isProcessing, now, net,
                   call, ret>>

\* `await response.json()` of the test request settles
TestJsonSettles(body) ==
    /\ pc = "testJson"
    /\ IF ReadCompletion(body).threw
       THEN TestFailed(ReadCompletion(body).error)
       ELSE /\ PanelDone
            /\ toasts' = Append(toasts, Toast("Connection successful",
                                               "GPT API is working correctly."))
    /\ UNCHANGED <<cloudVars, storeVars, uploadVars, messages, isProcessing, now, net,
                   call, ret>>

\* a message typed into the chat while no handler of the panel is under way
AskInputs == {"Explain gravity"}

Ask(input) ==
    /\ pc = "idle"
    /\ SubmitWithin(MaxClicks, input, 2)

InitSettings ==
    /\ panel = NoPanel
    /\ apiKey = JSNull /\ isEnabled = FALSE
    /\ db = "open" /\ pyodide = "null" /\ isInitialized = TRUE
    /\ initCall = InitializedWithout
    /\ datasets = <<>> /\ conversations = <<>>
    /\ settings \in {<<>>, SavedSettings(TRUE, "sk-test"), SavedSettings(FALSE, "")}
    /\ listed = <<>> /\ isUploading = FALSE /\ analysisResult = JSNull
    /\ messages = InitialMessages(EarlierTime) /\ now = EarlierTime
    /\ isProcessing = FALSE /\ pc = "loadSettings" /\ turn = NoTurn
    /\ toasts = <<>> /\ net = <<>>
    /\ call = NoCall /\ ret = NoRet

NextSettings ==
    \/ ToggleCloud
    \/ \E key \in KeyInputs : EditKey(key)
    \/ \E fails \in BOOLEAN : LoadSettingsSettles(fails)
    \/ SaveSettings
    \/ \E fails \in BOOLEAN : SaveEnabledSettles(fails)
    \/ \E fails \in BOOLEAN : SaveKeySettles(fails)
    \/ ClearApiKey
    \/ \E fails \in BOOLEAN : ClearKeySettles(fails)
    \/ TestConnection
    \/ \E outcome \in FetchOutcomes : TestFetchSettles(outcome)
    \/ \E body \in Bodies : TestJsonSettles(body)
    \/ \E input \in AskInputs : Ask(input)
    \/ \E outcome \in FetchOutcomes : ChatFetchSettles(outcome)
    \/ \E body \in Bodies : ChatJsonSettles(body)

SpecSettings == InitSettings /\ [][NextSettings]_vars

\* ------------------------------------------------------------------------
\* Claims
\* ------------------------------------------------------------------------

\* a credential is set: a key that is not the empty text
Credentialed(key) == key.t = "str" /\ key.s # ""

AnyOf(text, subs) == \E sub \in subs : Includes(text, sub)

\* the condition of rule r of the routing policy (spec section 4.1)
RuleHolds(r, query) ==
    LET lq == toLowerCase(query)
    IN  CASE r = 1 -> AnyOf(lq, {"data", "analyze", "dataset"})
          [] r = 2 -> AnyOf(lq, {"sentiment", "feeling", "emotion"})
          [] r = 3 -> AnyOf(lq, {"keyword", "important words"})
          [] r = 4 -> AnyOf(lq, {"hello", "hi", "hey"})
          [] r = 5 -> AnyOf(lq, {"help", "what can you do"})
          [] r = 6 -> Len(query) > 100 \/ AnyOf(lq, {"explain", "complex", "detailed"})
          [] OTHER -> TRUE

RuleOf(query) == CHOOSE r \in 1..7 :
    RuleHolds(r, query) /\ \A k \in 1..(r - 1) : ~RuleHolds(k, query)

RuleResponse(r, query, stored) ==
    CASE r = 1 -> IF Len(stored) = 0 THEN NoDatasetsReply ELSE DatasetsReply(Len(stored))
      [] r = 2 -> SentimentReply(basicSentimentAnalysis(query))
      [] r = 3 -> KeywordsReply(extractKeywords(query))
      [] r = 4 -> GreetingReply
      [] r = 5 -> HelpReply
      [] r = 6 -> ComplexReply
      [] OTHER -> DefaultReply

\* C1: whenever processLocalQuery returns, its response and its
\* needsCloudFallback flag are those of the lowest-numbered rule of the
\* routing policy whose condition the query meets (fallback exactly for
\* rules 6 and 7).
C1_FirstMatchWins ==
    (call.op = "processLocalQuery" /\ ret.done /\ ~ret.threw) =>
        ret.value = [response |-> RuleResponse(RuleOf(call.arg), call.arg, getDatasets),
                     needsCloudFallback |-> RuleOf(call.arg) >= 6]

\* a query holding both "hi" and "explain" was routed and got the greeting
C1_Witness ==
    /\ call.op = "processLocalQuery" /\ ret.done /\ ~ret.threw
    /\ Includes(toLowerCase(call.arg), "hi")
    /\ Includes(toLowerCase(call.arg), "explain")
    /\ ret.value = [response |-> GreetingReply, needsCloudFallback |-> FALSE]

\* C7: a call of processWithGPT made while the client is disabled throws the
\* disabled error, also when no credential is set, and one made enabled but
\* without a credential throws the missing-credential error, both without a
\* request; a response with a non-success status makes the call throw the API
\* error; no call hands more than one request to fetch.
C7_ExplicitErrors ==
    call.op = "processWithGPT" =>
        /\ Len(net) <= call.netBefore + 1
        /\ ~call.wasEnabled =>
               ret = Threw(DisabledError) /\ Len(net) = call.netBefore
        /\ (call.wasEnabled /\ ~Credentialed(call.key)) =>
               ret = Threw(NoKeyError) /\ Len(net) = call.netBefore
        /\ (call.settled /\ ~call.outcome.rejected /\ ~ResponseOk(call.outcome)) =>
               /\ ret = Threw(ApiError(call.outcome))
               /\ pc = "idle"
               /\ Len(net) = call.netBefore + 1

\* a second call, made disabled and without a credential after an earlier
\* call had sent a request, threw the disabled error
C7_Witness ==
    /\ call.op = "processWithGPT" /\ call.seq = 2 /\ call.netBefore = 1
    /\ ~call.wasEnabled /\ ~Credentialed(call.key)
    /\ ret = Threw(DisabledError)

\* the assistant entry that the call under way appended (the last entry)
Answer == messages[Len(messages)]

TurnDone == call.op = "processMessage" /\ pc = "idle"

\* the queries handleSubmit passes on, and the rule that decides each
ChatQueries == {Trim(input) : input \in ChatInputs} \ {""}

RuleTable == [q \in ChatQueries |-> RuleOf(q)]

\* the rule that decides the query of the processMessage under way
TurnRule == RuleTable[call.arg]

\* the text the router gives for that query
LocalText == RuleResponse(TurnRule, call.arg, getDatasets)

\* C2: while and after processMessage handles a query that meets one of the
\* rules 1-5, no request is handed to fetch, whatever the client's enabled
\* flag and credential are.
C2_LocalRulesNoNetwork ==
    (call.op = "processMessage" /\ TurnRule <= 5) =>
        Len(net) = call.netBefore /\ pc \notin {"fetch", "json"}

\* a query that holds "explain" and meets rule 4 was answered with the client
\* enabled and credentialed
C2_Witness ==
    /\ TurnDone /\ call.wasEnabled /\ Credentialed(call.key)
    /\ TurnRule = 4 /\ RuleHolds(6, call.arg)
    /\ Answer.content = GreetingReply

\* C3 as stated: every query longer than 100 characters or holding "explain",
\* "complex" or "detailed", handled with cloud processing disabled, gets a
\* text that ends with the enablement hint.
C3_Original ==
    (TurnDone /\ ~call.wasEnabled /\ RuleHolds(6, call.arg)) =>
        EndsWith(Answer.content, Hint)

\* C3 amended: the same for the queries that meet none of the rules 1-5.
C3_HintWhenDisabled ==
    (TurnDone /\ ~call.wasEnabled /\ TurnRule = 6) =>
        EndsWith(Answer.content, Hint)

\* a query of more than 100 characters was handled with the client disabled
\* though credentialed
C3_Witness ==
    /\ TurnDone /\ ~call.wasEnabled /\ Credentialed(call.key)
    /\ TurnRule = 6 /\ Len(call.arg) > 100
    /\ Answer.content = ComplexReply \o Hint

\* C4: when the cloud call made for a query fails, processMessage ends with
\* the placeholder holding the local text followed by the hint, origin
\* 'local', no longer loading, and neither the error text nor a toast.
C4_CloudFailureDowngraded ==
    (TurnDone /\ call.cloud = "failed") =>
        /\ Answer.content = LocalText \o Hint
        /\ Answer.content # ErrorReply
        /\ Answer.processingType = "local"
        /\ ~Answer.isLoading
        /\ Len(toasts) = call.toastsBefore
        /\ ~isProcessing

\* a request was sent for the query and the call failed
C4_Witness ==
    /\ TurnDone /\ call.cloud = "failed"
    /\ Len(net) = call.netBefore + 1
    /\ Answer.content = DefaultReply \o Hint

\* C5: a query that needs fallback, submitted while the client is not both
\* enabled and credentialed, is answered at once with the local text followed
\* by the hint, and no request is handed to fetch.
C5_NoCloudWithoutCredentials ==
    (call.op = "processMessage" /\ TurnRule >= 6
         /\ ~(call.wasEnabled /\ Credentialed(call.key))) =>
        /\ pc = "idle"
        /\ Len(net) = call.netBefore
        /\ Answer.content = LocalText \o Hint
        /\ Answer.processingType = "local"
        /\ ~Answer.isLoading

\* a query that needs fallback was submitted with the client enabled and its
\* key set to the empty text
C5_Witness ==
    /\ TurnDone /\ TurnRule = 7
    /\ call.wasEnabled /\ call.key = JSStr("")
    /\ Answer.content = DefaultReply \o Hint

Min(a, b) == IF a < b THEN a ELSE b

\* C6: a query that needs fallback, submitted while the client is enabled and
\* credentialed, has exactly one request sent for it, and while that request
\* is pending its messages are: the system prompt, then the last (at most
\* five) entries that preceded the new user entry in the list, in their
\* order, then the query as a user turn; no entry that preceded is loading.
C6_Envelope ==
    (call.op = "processMessage" /\ TurnRule >= 6
         /\ call.wasEnabled /\ Credentialed(call.key)) =>
        /\ Len(net) = call.netBefore + 1
        /\ pc = "fetch" =>
             LET sent  == net[Len(net)].messages
                 prior == SubSeq(messages, 1, Len(messages) - 2)
                 h     == Min(5, Len(prior))
             IN  /\ Len(sent) = h + 2
                 /\ sent[1] = [role |-> "system", content |-> SystemPrompt]
                 /\ sent[h + 2] = [role |-> "user", content |-> call.arg]
                 /\ \A i \in 1..h :
                        /\ sent[1 + i].role = prior[Len(prior) - h + i].role
                        /\ sent[1 + i].content = prior[Len(prior) - h + i].content
                 /\ \A i \in 1..Len(prior) : ~prior[i].isLoading
                 /\ Answer.isLoading

\* a request is pending for a query asked after seven earlier entries
C6_Witness ==
    /\ call.op = "processMessage" /\ pc = "fetch"
    /\ Len(messages) = 9
    /\ Len(net[Len(net)].messages) = 7

\* -- the store ------------------------------------------------------------

WritePaths == {"saveDataset", "saveConversation", "setSetting"}
ReadPaths  == {"getDatasets", "getConversations", "getSetting"}

\* the call just made reads a setting and returned
ReadBack == call.op = "getSetting" /\ ret.done /\ ~ret.threw

\* the call before it wrote that setting on an initialized store and returned
JustWritten ==
    /\ call.prev.op = "setSetting"
    /\ call.prev.arg = call.arg
    /\ call.prev.dbBefore = "open"
    /\ call.prev.returned

\* C8: on an initialized store, getSetting(key) immediately after
\* setSetting(key, value) returns exactly the written value, whatever the key
\* and the value (false, 0 and "" included), and getSetting of a key that was
\* never written returns null.
C8_RoundTrip ==
    ReadBack =>
        /\ (call.dbBefore = "open" /\ JustWritten) => ret.value = call.prev.value
        /\ ~HasKey(call.storedBefore[3], call.arg) => ret.value = JSNull

\* C9: before the store is initialized (db is null) every write path reports
\* an error, every read path returns empty / null without error, and no
\* stored collection changes.
C9_UninitializedAccess ==
    (call.op \in WritePaths \cup ReadPaths /\ call.dbBefore = "null" /\ ret.done) =>
        /\ call.op \in WritePaths => ret.threw
        /\ call.op \in ReadPaths =>
               /\ ~ret.threw
               /\ ret.value = IF call.op = "getSetting" THEN JSNull ELSE <<>>
        /\ Stored = call.storedBefore

\* -- the data view --------------------------------------------------------

\* the name is some stem followed by the extension
EndsIn(name, extension) ==
    \E k \in 0..Len(name) : SubSeq(name, 1, k) \o extension = name

UnsupportedName(name) == ~EndsIn(name, ".json") /\ ~EndsIn(name, ".csv")

\* the import under way is of a file with an unsupported name, or of a .json
\* file whose text does not parse
Unimportable ==
    /\ call.op = "handleFileUpload"
    /\ \/ UnsupportedName(call.arg)
       \/ EndsIn(call.arg, ".json") /\ call.value.s \in MalformedJson

LastToast == toasts[Len(toasts)]

\* C10: importing a file whose name ends in neither .json nor .csv, or a
\* .json file whose text fails to parse, is rejected with an explicit error
\* and writes nothing: saveDataset is not called, the dataset collection is
\* unchanged, and the import ends with the "Upload failed" toast carrying the
\* error (and with nothing else shown).
C10_RejectedImportWritesNothing ==
    Unimportable =>
        /\ call.saveCalls = 0
        /\ pc \notin {"add", "load"}
        /\ Stored = call.storedBefore
        /\ IF call.settled
           THEN /\ Len(toasts) = call.toastsBefore + 1
                /\ LastToast.title = "Upload failed"
                /\ LastToast.description \in
                       {ReadError,
                        IF UnsupportedName(call.arg) THEN UnsupportedType ELSE SyntaxError}
                /\ ~isUploading
           ELSE Len(toasts) = call.toastsBefore

\* two imports were rejected on an open store, the first for its text and the
\* second for its name
C10_Witness ==
    /\ db = "open"
    /\ call.seq = 2 /\ call.settled /\ Unimportable
    /\ Len(toasts) = 2
    /\ toasts[1] = Toast("Upload failed", SyntaxError)
    /\ toasts[2] = Toast("Upload failed", UnsupportedType)

\* a record of the store as it is before a step is in the store after it
Kept == \A i \in 1..Len(datasets) : \E j \in 1..Len(datasets') : datasets'[j] = datasets[i]

\* C11: a stored dataset record is never modified or removed: every step of
\* the data view (an import with its saveDataset, Analyze, Delete) leaves each
\* record of the collection in it, unchanged in every field, so the collection
\* only grows; a saveDataset whose id collides with a stored record does not
\* overwrite it.
C11_DatasetsImmutable == [][Kept]_vars

\* an import was refused for the id of a stored record, after Delete and
\* Analyze were used on that record, which is still the only one stored
C11_Witness ==
    /\ datasets = <<SampleDataset(EarlierTime)>>
    /\ Len(toasts) = 3
    /\ toasts[1].title = "Delete dataset"
    /\ toasts[2].title = "Analysis complete"
    /\ toasts[3] = Toast("Upload failed", ConstraintError)

\* -- the message list -----------------------------------------------------

\* C12: the message list is updated by replacing the entry with the
\* placeholder's id: delivering the same update twice gives the list that
\* delivering it once gives, and the updates of two placeholders (two ids)
\* give the same list in either order.
C12_UpdatesCommute ==
    \A u \in SampleUpdates :
        /\ Resolve(Resolve(messages, u), u) = Resolve(messages, u)
        /\ \A v \in SampleUpdates :
               u.id # v.id =>
                   Resolve(Resolve(messages, u), v) = Resolve(Resolve(messages, v), u)

\* two placeholders of one list were resolved, one after the other
C12_Witness ==
    /\ call.op = "setMessages" /\ call.prev.op = "setMessages"
    /\ call.arg = "102" /\ call.prev.arg = "104"
    /\ Len(messages) = 5
    /\ messages[3].content = "Hello!" /\ ~messages[3].isLoading
    /\ messages[5].content = ErrorReply /\ ~messages[5].isLoading

\* the entry is the same but for content, processing origin and loading flag
SameButAnswer(before, after) ==
    after = [before EXCEPT !.content = after.content,
                           !.processingType = after.processingType,
                           !.isLoading = after.isLoading]

\* the entries of the list that a step changes
Changed == {i \in 1..Len(messages) : messages'[i] # messages[i]}

\* a step appends nothing, or one user message followed by one assistant message
AppendsOneTurn ==
    \/ Len(messages') = Len(messages)
    \/ /\ Len(messages') = Len(messages) + 2
       /\ messages'[Len(messages) + 1].role = "user"
       /\ messages'[Len(messages) + 2].role = "assistant"

\* C13: the message list is append-only: no step of a processMessage call
\* shrinks or reorders it, a call appends exactly one user message and one
\* assistant message, and resolving the placeholder changes only the content,
\* origin and loading flag of that one assistant entry, every other message
\* being left as it was.
C13_AppendOnly ==
    [][/\ Len(messages') >= Len(messages)
       /\ AppendsOneTurn
       /\ Cardinality(Changed) <= 1
       /\ \A i \in Changed :
              /\ messages[i].role = "assistant" /\ messages[i].isLoading
              /\ SameButAnswer(messages[i], messages'[i])]_vars

\* -- the data operations --------------------------------------------------

\* C14: a failure to load the interpreter during initialize is not fatal:
\* initialize returns without throwing, the store is marked initialized, the
\* database is open, and every processDataLocally call is served by the
\* fallback analyzer (its result is the fallback's result).
C14_InterpreterFailureNonFatal ==
    initCall.interpreter = "failed" =>
        /\ initCall.ret.done /\ ~initCall.ret.threw
        /\ isInitialized
        /\ db = "open"
        /\ pc = "idle"
        /\ (call.op = "processDataLocally" =>
                ret = fallbackDataProcessing(call.value, call.arg))

\* pandas could not be installed, initialize has returned, and a summary was
\* asked for afterwards
C14_Witness ==
    /\ initCall.interpreter = "failed"
    /\ pyodide = "loaded"
    /\ call.op = "processDataLocally" /\ call.interpreter = "loaded" /\ ~call.pythonThrows
    /\ call.arg = "summary" /\ call.value = Row(7, "single")
    /\ ~ret.threw
    /\ ret.value.entries[1] = Property("shape", JSArr(<<JSNum(1), JSNum(2)>>))

\* the call just made was served without the interpreter's result
ServedByFallback ==
    /\ call.op = "processDataLocally"
    /\ call.interpreter \in {"null", "loaded"} \/ call.pythonThrows

\* the rows of the input: the list itself, or the single (or absent) record
InputRows == IF call.value.t = "arr" THEN call.value.items ELSE <<call.value>>

\* the column names of a row record (none for an absent one)
Columns(row) ==
    IF row.t = "obj" THEN [i \in 1..Len(row.entries) |-> JSStr(row.entries[i].key)] ELSE <<>>

FirstColumns == IF InputRows = <<>> THEN <<>> ELSE Columns(InputRows[1])

\* C15: when the interpreter is unavailable or throws, processDataLocally
\* returns the reduced result and never an error, for every input: 'summary'
\* gives shape = [rows, columns of the first row], columns = the first row's
\* keys, sample = the first min(5, rows) rows; 'stats' gives only the
\* placeholder message; any other operation gives processed = true and rows.
C15_FallbackNeverFails ==
    ServedByFallback =>
        /\ ~ret.threw
        /\ ret.value =
               CASE call.arg = "summary" ->
                        JSObj(<<Property("shape", JSArr(<<JSNum(Len(InputRows)),
                                                          JSNum(Len(FirstColumns))>>)),
                                Property("columns", JSArr(FirstColumns)),
                                Property("sample",
                                         JSArr(SubSeq(InputRows, 1, Min(5, Len(InputRows)))))>>)
                 [] call.arg = "stats" ->
                        JSObj(<<Property("message", JSStr("Basic stats computed locally"))>>)
                 [] OTHER ->
                        JSObj(<<Property("processed", JSBool(TRUE)),
                                Property("rows", JSNum(Len(InputRows)))>>)

\* -- the text operations --------------------------------------------------

Answered(operation) ==
    call.op = "processTextLocally" /\ call.arg = operation /\ ret.done

\* the tokens of the input that are positive (negative) words in any case
PositiveTokens == {"good", "Great"}
NegativeTokens == {"bad", "Hate"}
PositiveCount == Cardinality({i \in 1..Len(call.tokens) : call.tokens[i] \in PositiveTokens})
NegativeCount == Cardinality({i \in 1..Len(call.tokens) : call.tokens[i] \in NegativeTokens})

\* C16: for every text, the sentiment confidence is in [0,1] (0 for a text
\* without tokens); the label is 'positive' exactly when there are more
\* positive than negative tokens, 'negative' exactly when there are more
\* negative ones, and equal counts give 'neutral' with confidence 0.
C16_SentimentContract ==
    Answered("sentiment") =>
        LET r == ret.value
        IN  /\ ~ret.threw
            /\ r.confDen > 0 /\ 0 <= r.confNum /\ r.confNum <= r.confDen
            /\ call.tokens = <<>> => r.confNum = 0
            /\ r.positive = PositiveCount /\ r.negative = NegativeCount
            /\ r.sentiment = "positive" <=> PositiveCount > NegativeCount
            /\ r.sentiment = "negative" <=> NegativeCount > PositiveCount
            /\ PositiveCount = NegativeCount => r.sentiment = "neutral" /\ r.confNum = 0

\* one positive and one negative token, in upper and lower case: a tie
C16_Witness ==
    /\ Answered("sentiment")
    /\ call.value = JSStr("Great \nHate")
    /\ ret.value.sentiment = "neutral" /\ ret.value.confNum = 0 /\ ret.value.positive = 1

\* the position at which a qualifying token is first seen in the text
FirstSeenAt(w) ==
    CHOOSE i \in 1..Len(call.qualifying) :
        call.qualifying[i] = w /\ \A j \in 1..(i - 1) : call.qualifying[j] # w

\* C17: keyword extraction returns at most 10 entries in descending order of
\* count, entries with equal counts in the order in which their words were
\* first seen, the same on every run; all-digit tokens included.
C17_KeywordOrder ==
    Answered("keywords") =>
        LET k == ret.value.keywords
        IN  /\ Len(k) <= 10
            /\ ret.value = extractKeywords(call.value.s)
            /\ \A i \in 1..Len(k) : \A j \in (i + 1)..Len(k) :
                   \/ k[i].count > k[j].count
                   \/ k[i].count = k[j].count /\ FirstSeenAt(k[i].word) < FirstSeenAt(k[j].word)

DistinctQualifying == {call.qualifying[i] : i \in 1..Len(call.qualifying)}

Occurrences(w) == Cardinality({i \in 1..Len(call.qualifying) : call.qualifying[i] = w})

SummarySize(n) == IF 3 * n > 20 THEN 3 ELSE IF 3 * n > 10 THEN 2 ELSE IF n > 0 THEN 1 ELSE 0

\* C19: the summary of a text with n non-empty sentences is its first
\* min(3, ceil(0.3 n)) sentences in their order (joined with '. ' and closed
\* with '.'); 10 sentences give 3; summaryLength is at most 3 and at most
\* originalLength.
C19_SummaryKeepsFirst ==
    Answered("summary") =>
        LET n == Len(call.sentences)
            r == ret.value
        IN  /\ r.originalLength = n
            /\ r.summaryLength = SummarySize(n)
            /\ r.summary = Join(SubSeq(call.sentences, 1, SummarySize(n)), ". ") \o "."
            /\ n = 10 => r.summaryLength = 3
            /\ r.summaryLength <= 3 /\ r.summaryLength <= r.originalLength

\* ten sentences behind a blank fragment
C19_Witness ==
    /\ Answered("summary")
    /\ Len(call.sentences) = 10
    /\ SubSeq(call.value.s, 1, 9) = "! . Alpha"
    /\ ret.value.summaryLength = 3
    /\ ret.value.summary = " Alpha.  Bravo.  Charlie."

\* -- the CSV import -------------------------------------------------------

\* what a cell is: the number it writes, or else its text without quotes and
\* surrounding blanks
CellValue ==
    [c \in {CellTexts[i] : i \in 1..Len(CellTexts)} |->
        CASE c = "1"         -> JSNum(1)
          [] c = "2"         -> JSNum(2)
          [] c = " \"q\" "   -> JSStr("q")
          [] OTHER           -> JSStr(c)]

Record(row) == JSObj(<<Property("a", CellValue[row[1]]), Property("b", CellValue[row[2]])>>)

\* C20: the CSV import gives one record per line after the header line, with
\* exactly the header names as keys, each cell a number when it is one and
\* else its quote-stripped text; "a,b\n1,x\n2,y" gives {a:1,b:"x"}, {a:2,b:"y"}.
C20_CsvRecords ==
    (call.op = "parseCSV" /\ ret.done) =>
        /\ ret.value = JSArr([i \in 1..Len(call.cells) |-> Record(call.cells[i])])
        /\ call.value = JSStr("a,b\n1,x\n2,y") =>
               ret.value = JSArr(<<JSObj(<<Property("a", JSNum(1)), Property("b", JSStr("x"))>>),
                                   JSObj(<<Property("a", JSNum(2)), Property("b", JSStr("y"))>>)>>)

\* -- the turns of the chat ------------------------------------------------

Loading == {i \in 1..Len(messages) : messages[i].isLoading}

\* C22: at most one message is being processed at a time: a submit while
\* isProcessing (or of blank input) is ignored, so the message list holds at
\* most one entry with isLoading = true, and only while isProcessing is true.
C22_OneAtATime ==
    /\ [](Cardinality(Loading) <= 1 /\ (Loading # {} => isProcessing))
    /\ [][isProcessing => Len(messages') = Len(messages)]_vars

\* the second turn waits for the cloud, its placeholder the only one loading
C22_Witness ==
    /\ call.seq = 2 /\ pc = "fetch" /\ isProcessing
    /\ Len(messages) = 5
    /\ Loading = {5}

\* what the placeholder of the turn may end with: the local answer, the local
\* answer with the hint, the text of the cloud's reply, the error text
AnswerTexts ==
    {LocalText, LocalText \o Hint, ErrorReply, ""} \cup CloudReplies

\* the turn has ended: its placeholder carries an answer, nothing is loading
\* and a further submit is accepted
Resolved ==
    /\ call.op = "processMessage"
    /\ ~isProcessing /\ pc = "idle"
    /\ Loading = {}
    /\ Answer.role = "assistant" /\ Answer.content \in AnswerTexts

\* C23: every submitted message is eventually resolved: when the awaited
\* storage and network calls settle, processMessage ends on every path with
\* the placeholder no longer loading and holding the answer or the error
\* text, and with isProcessing false again.
C23_EventuallyResolved ==
    /\ [](call.op = "processMessage" /\ pc = "idle" => Resolved)
    /\ isProcessing ~> Resolved

\* a second turn was accepted and ended with the error text
C23_Witness ==
    /\ call.seq = 2 /\ Resolved
    /\ Answer.content = ErrorReply
    /\ Len(toasts) > 0

\* C24: the identifiers of the message list are pairwise distinct in every
\* reachable state (greeting '1', user id = the time, placeholder id = the
\* time + 1, over consecutive turns), so that a placeholder resolved by its
\* identifier changes exactly one entry.
C24_DistinctIds ==
    /\ [](\A i, j \in 1..Len(messages) : i # j => messages[i].id # messages[j].id)
    /\ [][Cardinality({i \in 1..Len(messages) : messages'[i] # messages[i]}) <= 1]_vars


\* the entries a step leaves labelled 'cloud' that it wrote or rewrote
NewlyCloud ==
    {i \in 1..Len(messages') :
        /\ messages'[i].processingType = "cloud"
        /\ (i > Len(messages) \/ messages'[i] # messages[i])}

\* C25: an assistant entry is labelled 'cloud' exactly when its content is the
\* text a successful cloud call made for its turn returned: the answer of a
\* finished turn is labelled 'cloud' iff that turn's cloud call succeeded, an
\* entry labelled 'cloud' holds a text returned by the cloud, and a step labels
\* an entry 'cloud' only when that entry is the placeholder of the turn under
\* way, the routed query needed fallback, the client was enabled and
\* credentialed when the turn consulted it, and the call returns at that step.
C25_CloudLabel ==
    /\ [](TurnDone => (Answer.processingType = "cloud" <=> call.cloud = "succeeded"))
    /\ [](\A i \in 1..Len(messages) :
              messages[i].processingType = "cloud" =>
                  messages[i].role = "assistant" /\ messages[i].content \in CloudReplies)
    /\ [][\A i \in NewlyCloud :
              /\ i = Len(messages) /\ messages[i].isLoading
              /\ pc = "json" /\ call'.cloud = "succeeded"
              /\ TurnRule >= 6
              /\ call.wasEnabled /\ Credentialed(call.key)]_vars


\* what the store holds for the switch and for the key
PersistedEnabled == getSetting("cloudEnabled") = JSBool(TRUE)
PersistedKey     == getSetting("gptApiKey")

\* a step that hands a request of the chat view to fetch
ChatQuerySent == call'.op = "processMessage" /\ Len(net') = Len(net) + 1

\* C21: whenever no handler of the settings panel is under way, the cloud
\* client is enabled only if the persisted cloudEnabled is true and holds a
\* credential only if the persisted gptApiKey is that same non-empty key; and
\* no query of the chat is sent to the cloud while the persisted switch is off
\* or the persisted key is empty.
C21_ClientAgreesWithSettings ==
    /\ [](pc = "idle" =>
              /\ isEnabled => PersistedEnabled
              /\ Credentialed(apiKey) => PersistedKey = apiKey)
    /\ [][ChatQuerySent => PersistedEnabled /\ Credentialed(PersistedKey)]_vars

====
